---- MODULE Spec2Model ----
(***************************************************************************)
(* State-machine model of pvcast's core.                                   *)
(*                                                                         *)
(* Plant aggregator (src/src/pvcast/model/plant.py): construction of a     *)
(* MicroPlant or StringPlant from a plant configuration, Plant.run over a  *)
(* weather table and the `results` property.  pvlib is external: a         *)
(* ModelChain (a "unit") is kept by its name only, and what a unit does    *)
(* when run_model is called is an input of Run: it yields an AC series,    *)
(* yields no AC series, or raises.  pvlib computes a unit's results on the *)
(* index of the weather it is given, so a yielded AC series has one value  *)
(* per weather row.                                                        *)
(*                                                                         *)
(* Irradiance engine (src/src/pvcast/weather/atmospheric.py):              *)
(* cloud_cover_to_irradiance over a cloud-cover table, with pvlib's        *)
(* clear-sky, DISC and Campbell-Norman models evaluated at three states    *)
(* of the sun.                                                             *)
(*                                                                         *)
(* Weather validator (src/src/pvcast/weather/const.py and api.py):         *)
(* WEATHER_SCHEMA over a list of weather records and WeatherAPI._validate, *)
(* with voluptuous' traversal of the schema.                               *)
(***************************************************************************)
EXTENDS Integers, Sequences, FiniteSets, TLC

VARIABLES
    ctor,       \* the constructor call: class, config, simple, outcome
    plant,      \* the Plant object, NoPlant before / without construction
    results,    \* Plant._results: NoneValue or a table
    call,       \* arguments of the most recent run() call, and what the
                \* units it invoked did
    ret,        \* outcome of that call: returned or raised
    warned,     \* the call's "Missing optional weather columns" warning
    executed,   \* indices of the units whose run_model the call invoked
    read,       \* outcome of the most recent read of `results` since then
    runs,       \* number of run() calls made on the plant
    hist,       \* how the last run() relates to the state it started from
    conv,       \* a cloud_cover_to_irradiance call: arguments and outcome
    val,        \* a validation of weather records: input and outcomes
    res,        \* a plant specification given to the resolver, and outcome
    factory,    \* the weather API factory: its registry and the last call
    sys         \* two plants of one system, the tables they and their
                \* caller hold, and the last call made

vars == <<ctor, plant, results, call, ret, warned, executed, read, runs, hist,
          conv, val, res, factory, sys>>

(***************************************************************************)
(* Bounds                                                                  *)
(***************************************************************************)
MaxArrays == 2      \* arrays per plant configuration
MaxInv == 2         \* nr_inverters per array
MaxUnits == 2       \* units of a plant that is run
MaxRows == 2        \* rows of a weather table
MaxRuns == 2        \* run() calls per plant
MaxRecords == 3     \* records of a weather sequence given to the validator

(***************************************************************************)
(* Values                                                                  *)
(***************************************************************************)
NoneValue == [kind |-> "None"]
NoPlant == [kind |-> "NoPlant"]

Return(v) == [kind |-> "return", value |-> v]
Raise(exc, msg) == [kind |-> "raise", exc |-> exc, msg |-> msg]

\* the non-empty sequences over S of length at most n
SeqsUpTo(S, n) == UNION {[1..k -> S] : k \in 1..n}

Range(s) == {s[i] : i \in DOMAIN s}

(***************************************************************************)
(* Plant configurations, in the four shapes of config/schemas.py.  Values  *)
(* the plant only hands on to pvlib (tilt, azimuth, powers, string sizes)  *)
(* are fixed.                                                              *)
(***************************************************************************)
PlantName == "P"
ArrayNames == {"E", "W"}
ModuleIds == {"mod_a", "mod_x", "mod_y"}
InverterIds == {"inv_a", "inv_x", "inv_y"}

\* retrieve_sam("CECMod") / retrieve_sam("CECInverter"): the identifiers
\* the component database knows
CECMod == {"mod_a"}
CECInverter == {"inv_a"}

ARRAY_SIMPLE_MICRO ==
    {[name |-> n, tilt |-> 30, azimuth |-> 90, dc_power |-> 300,
      ac_power |-> 250] : n \in ArrayNames}

ARRAY_SIMPLE_STRING ==
    {[name |-> n, tilt |-> 30, azimuth |-> 90, dc_power |-> 300] :
        n \in ArrayNames}

ARRAY_FULL_MICRO ==
    {[name |-> n, tilt |-> 30, azimuth |-> 90, modules_per_string |-> 1,
      nr_inverters |-> k, module |-> m, inverter |-> i] :
        n \in ArrayNames, k \in 1..MaxInv, m \in ModuleIds, i \in InverterIds}

ARRAY_FULL_STRING ==
    {[name |-> n, tilt |-> 30, azimuth |-> 90, modules_per_string |-> 1,
      strings |-> 1, module |-> m] : n \in ArrayNames, m \in ModuleIds}

\* The arrays of a system.  An array's name is used only to build unit
\* names and is never parsed, so systems are taken up to a renaming of
\* their arrays: the first array has the first name.
Arrays(ARRAY) ==
    {a \in SeqsUpTo(ARRAY, MaxArrays) : a[1].name = "E"}

SYSTEM_SIMPLE_MICRO ==
    {[name |-> PlantName, arrays |-> a] : a \in Arrays(ARRAY_SIMPLE_MICRO)}

SYSTEM_SIMPLE_STRING ==
    {[name |-> PlantName, ac_power |-> 5000, arrays |-> a] :
        a \in Arrays(ARRAY_SIMPLE_STRING)}

SYSTEM_FULL_MICRO ==
    {[name |-> PlantName, arrays |-> a] : a \in Arrays(ARRAY_FULL_MICRO)}

SYSTEM_FULL_STRING ==
    {[name |-> PlantName, inverter |-> i, arrays |-> a] :
        i \in InverterIds, a \in Arrays(ARRAY_FULL_STRING)}

\* (schema, plant class, is_simple), in the order of the resolver
plant_options ==
    << [schema |-> SYSTEM_SIMPLE_MICRO, plant_class |-> "MicroPlant",
        is_simple |-> TRUE],
       [schema |-> SYSTEM_SIMPLE_STRING, plant_class |-> "StringPlant",
        is_simple |-> TRUE],
       [schema |-> SYSTEM_FULL_MICRO, plant_class |-> "MicroPlant",
        is_simple |-> FALSE],
       [schema |-> SYSTEM_FULL_STRING, plant_class |-> "StringPlant",
        is_simple |-> FALSE] >>

(***************************************************************************)
(* Construction                                                            *)
(***************************************************************************)
\* Plant._collect_params: the first failing lookup decides the error; the
\* module loop runs to its end before any inverter is looked up.
RECURSIVE FirstUnknown(_, _)
FirstUnknown(ids, known) ==
    IF ids = <<>> THEN NoneValue
    ELSE IF Head(ids) \notin known THEN [kind |-> "id", id |-> Head(ids)]
    ELSE FirstUnknown(Tail(ids), known)

ModuleLookups(config) ==
    [k \in 1..Len(config.arrays) |-> config.arrays[k].module]

InverterLookups(config) ==
    (IF "inverter" \in DOMAIN config THEN <<config.inverter>> ELSE <<>>)
    \o LET withInv == SelectSeq(config.arrays,
                                LAMBDA a : "inverter" \in DOMAIN a)
       IN [k \in 1..Len(withInv) |-> withInv[k].inverter]

\* Python's str() of a KeyError is the repr of the missing key
KeyErrorStr(id) == "'" \o id \o "'"

\* the inverter lookups made before the module lookups
CollectParamsInverterFirst(config) ==
    LET badModule == FirstUnknown(ModuleLookups(config), CECMod)
        badInverter == FirstUnknown(InverterLookups(config), CECInverter)
    IN IF badInverter # NoneValue
       THEN [raised |-> Raise("KeyError",
                              "Invalid inverter in configuration: "
                                  \o KeyErrorStr(badInverter.id)),
             modules |-> {}, inverters |-> {}]
       ELSE IF badModule # NoneValue
       THEN [raised |-> Raise("KeyError", "Invalid module in configuration: "
                                  \o KeyErrorStr(badModule.id)),
             modules |-> {}, inverters |-> Range(InverterLookups(config))]
       ELSE [raised |-> NoneValue,
             modules |-> Range(ModuleLookups(config)),
             inverters |-> Range(InverterLookups(config))]

CollectParams(config) ==
    LET badModule == FirstUnknown(ModuleLookups(config), CECMod)
        badInverter == FirstUnknown(InverterLookups(config), CECInverter)
    IN IF badModule # NoneValue
       THEN [raised |-> Raise("KeyError", "Invalid module in configuration: "
                                  \o KeyErrorStr(badModule.id)),
             modules |-> {}, inverters |-> {}]
       ELSE IF badInverter # NoneValue
       THEN [raised |-> Raise("KeyError",
                              "Invalid inverter in configuration: "
                                  \o KeyErrorStr(badInverter.id)),
             modules |-> Range(ModuleLookups(config)), inverters |-> {}]
       ELSE [raised |-> NoneValue,
             modules |-> Range(ModuleLookups(config)),
             inverters |-> Range(InverterLookups(config))]

\* f"{self._name}_{array['name']}_{i}"
UnitName(plantName, arrayName, i) ==
    plantName \o "_" \o arrayName \o "_" \o ToString(i)

\* one ModelChain per array, nr_inverters ignored
ArrayUnitsSingle(plantName, array, nr_inverters) ==
    << [name |-> UnitName(plantName, array.name, 0)] >>

\* MicroPlant._construct: the inner loop, range(nr_inverters)
ArrayUnits(plantName, array, nr_inverters) ==
    [i \in 1..nr_inverters |->
        [name |-> UnitName(plantName, array.name, i - 1)]]

RECURSIVE MicroConstruct(_, _, _)
MicroConstruct(plantName, arrays, simple) ==
    IF arrays = <<>> THEN <<>>
    ELSE LET array == Head(arrays)
             nr_inverters == IF simple THEN 1 ELSE array.nr_inverters
         IN ArrayUnits(plantName, array, nr_inverters)
                \o MicroConstruct(plantName, Tail(arrays), simple)

\* StringPlant._construct: one ModelChain over all arrays
StringConstruct(plantName, arrays, simple) ==
    << [name |-> plantName] >>

ConstructUnits(plant_class, config, simple) ==
    IF plant_class = "MicroPlant"
    THEN MicroConstruct(config.name, config.arrays, simple)
    ELSE StringConstruct(config.name, config.arrays, simple)

\* Plant.__init__ (after the subclass has set _config and _location)
NewPlant(plant_class, config, simple) ==
    LET params == IF simple
                  THEN [raised |-> NoneValue, modules |-> {},
                        inverters |-> {}]
                  ELSE CollectParams(config)
    IN IF params.raised # NoneValue
       THEN [raised |-> params.raised, plant |-> NoPlant]
       ELSE [raised |-> NoneValue,
             plant |-> [kind |-> plant_class,
                        simple |-> simple,
                        config |-> config,
                        name |-> config.name,
                        modules |-> params.modules,
                        inverters |-> params.inverters,
                        plants |-> ConstructUnits(plant_class, config,
                                                  simple)]]

(***************************************************************************)
(* Tables (pandas DataFrame): an index and ordered, named columns          *)
(***************************************************************************)
Column(name, values) == [name |-> name, values |-> values]

ColumnNames(df) == {df.columns[k].name : k \in DOMAIN df.columns}

ColumnValues(df, name) ==
    LET k == CHOOSE k \in DOMAIN df.columns : df.columns[k].name = name
    IN df.columns[k].values

\* df[name] = values: replaces the column of that name, else appends one
SetColumn(df, name, values) ==
    IF name \in ColumnNames(df)
    THEN [df EXCEPT !.columns =
            [k \in DOMAIN @ |-> IF @[k].name = name
                                THEN Column(name, values) ELSE @[k]]]
    ELSE [df EXCEPT !.columns = Append(@, Column(name, values))]

\* len(df) and df.empty
RowCount(df) == Len(df.index)
IsEmpty(df) == Len(df.index) = 0 \/ Len(df.columns) = 0

(***************************************************************************)
(* Weather tables given to run()                                           *)
(***************************************************************************)
IndexKinds == {"DatetimeIndex", "Index"}

IrradianceColumns == {"ghi", "dni", "dhi"}
TemperatureColumns == {"temperature", "temp_air"}
WeatherColumnOrder ==
    <<"ghi", "dni", "dhi", "temperature", "temp_air", "wind_speed">>

\* what the pipeline hands to run(): the weather collaborator's columns
\* with the irradiance engine's ghi, dni and dhi merged in
PipelineColumns == IrradianceColumns \cup {"temperature", "wind_speed"}

\* the pipeline's columns; the same with the temperature under its other
\* name; the same with the irradiances, the temperature or the wind speed
\* left out; the wind speed alone; no column at all
WeatherColumnSets ==
    {PipelineColumns,
     (PipelineColumns \ {"temperature"}) \cup {"temp_air"},
     PipelineColumns \ IrradianceColumns,
     PipelineColumns \ {"temperature"},
     PipelineColumns \ {"wind_speed"},
     {"wind_speed"},
     {}}

WeatherTable(kind, n, colset) ==
    LET names == SelectSeq(WeatherColumnOrder, LAMBDA c : c \in colset)
    IN [index_kind |-> kind,
        index |-> [r \in 1..n |-> r],
        columns |-> [k \in 1..Len(names) |->
                        Column(names[k], [r \in 1..n |-> 10 * r])]]

PipelineWeather == WeatherTable("DatetimeIndex", MaxRows, PipelineColumns)

\* every column set on a time index, and the pipeline's columns with every
\* row count on either kind of index
WeatherTables ==
    {WeatherTable("DatetimeIndex", MaxRows, colset) :
        colset \in WeatherColumnSets}
    \cup {WeatherTable(kind, n, PipelineColumns) :
            kind \in IndexKinds, n \in 0..MaxRows}

(***************************************************************************)
(* What a unit does when its run_model is called.  Unit k, when it yields  *)
(* an AC series, yields its own: 2^(k-1) times the row number, so that a   *)
(* total tells which units are in it.                                      *)
(***************************************************************************)
RECURSIVE Pow2(_)
Pow2(k) == IF k = 0 THEN 1 ELSE 2 * Pow2(k - 1)

UnitSeries(k, n) == [r \in 1..n |-> Pow2(k - 1) * r]

RuntimeErrors == {"RuntimeError"}
OtherErrors == {"ValueError"}

Ok(ac) == [kind |-> "ok", ac |-> ac]
NoAc == [kind |-> "none"]
Raises(exc) == [kind |-> "raise", exc |-> exc]

\* the outcomes after which the loop goes on to the next unit, and the others
Absorbed(k, n) ==
    {Ok(UnitSeries(k, n)), NoAc} \cup {Raises(e) : e \in RuntimeErrors}
Propagated == {Raises(e) : e \in OtherErrors}

\* The units answer in turn, and only when asked: a sequence of outcomes
\* ends with the last unit or with the first outcome that leaves the loop.
RECURSIVE ResponsesFrom(_, _, _)
ResponsesFrom(k, N, n) ==
    IF k > N THEN {<<>>}
    ELSE {<<p>> : p \in Propagated}
         \cup {<<a>> \o s : a \in Absorbed(k, n),
                            s \in ResponsesFrom(k + 1, N, n)}

Responses(N, n) == ResponsesFrom(1, N, n)

(***************************************************************************)
(* Plant.run and its helpers                                               *)
(***************************************************************************)
\* model/const.py: the weather collaborator's names that differ from pvlib's
RENAME_WEATHER_COLUMNS == [temperature |-> "temp_air"]

Rename(name) ==
    IF name \in DOMAIN RENAME_WEATHER_COLUMNS
    THEN RENAME_WEATHER_COLUMNS[name] ELSE name

\* weather_df.rename(columns=RENAME_WEATHER_COLUMNS): a new table
PrepareWeatherData(weather_df) ==
    [weather_df EXCEPT !.columns =
        [k \in DOMAIN @ |-> Column(Rename(@[k].name), @[k].values)]]

required_cols == <<"ghi", "dni", "dhi", "temp_air", "wind_speed">>

\* every checked column reported as soon as one is missing
MissingColsAll(weather_df) ==
    IF \E k \in DOMAIN required_cols :
            required_cols[k] \notin ColumnNames(weather_df)
    THEN required_cols ELSE <<>>

MissingCols(weather_df) ==
    SelectSeq(required_cols, LAMBDA col : col \notin ColumnNames(weather_df))

\* validation without the isinstance check of the index
ValidateWithoutIndexCheck(weather_df) ==
    IF IsEmpty(weather_df)
    THEN [raised |-> Raise("ValueError", "Weather DataFrame cannot be empty"),
          warning |-> NoneValue]
    ELSE [raised |-> NoneValue,
          warning |-> IF MissingCols(weather_df) # <<>>
                      THEN [kind |-> "warning",
                            missing_cols |-> MissingCols(weather_df)]
                      ELSE NoneValue]

ValidateWeatherDataframe(weather_df) ==
    IF IsEmpty(weather_df)
    THEN [raised |-> Raise("ValueError", "Weather DataFrame cannot be empty"),
          warning |-> NoneValue]
    ELSE IF weather_df.index_kind # "DatetimeIndex"
    THEN [raised |-> Raise("TypeError",
                           "Weather DataFrame index must be a pd.DatetimeIndex"),
          warning |-> NoneValue]
    ELSE [raised |-> NoneValue,
          warning |-> IF MissingCols(weather_df) # <<>>
                      THEN [kind |-> "warning",
                            missing_cols |-> MissingCols(weather_df)]
                      ELSE NoneValue]

\* no except clause: every error of a unit leaves the loop
CaughtNone(exc) == FALSE

\* `except RuntimeError`
Caught(exc) == exc \in RuntimeErrors

\* a total one row short of the weather table
ZerosShort(n) == [r \in 1..(n - 1) |-> 0]

Zeros(n) == [r \in 1..n |-> 0]

\* `=` in place of `+=`: the total is the last yielded series
AccumulateOverwrite(total_ac_power, ac_values) ==
    [r \in DOMAIN total_ac_power |-> ac_values[r]]

\* total_ac_power += ac_values
Accumulate(total_ac_power, ac_values) ==
    [r \in DOMAIN total_ac_power |-> total_ac_power[r] + ac_values[r]]

\* The loop over self._plants from unit k on.  loop: total_ac_power,
\* ac_power_results, the units invoked so far, and the error that left it.
RECURSIVE RunUnits(_, _, _, _)
RunUnits(units, responses, k, loop) ==
    IF k > Len(units) THEN loop
    ELSE LET outcome == responses[k]
             invoked == [loop EXCEPT !.executed = Append(@, k)]
         IN IF outcome.kind = "ok"
            THEN RunUnits(units, responses, k + 1,
                    [invoked EXCEPT
                        !.total_ac_power = Accumulate(@, outcome.ac),
                        !.ac_power_results =
                            Append(@, Column("ac_" \o units[k].name,
                                             outcome.ac))])
            ELSE IF outcome.kind = "none"
            THEN RunUnits(units, responses, k + 1, invoked)
            ELSE IF Caught(outcome.exc)
            THEN RunUnits(units, responses, k + 1, invoked)
            ELSE [invoked EXCEPT !.raised =
                    Raise(outcome.exc, "raised by " \o units[k].name)]

\* for ac_series in ac_power_results: result_df[ac_series.name] = ac_series
RECURSIVE AddColumns(_, _)
AddColumns(result_df, series) ==
    IF series = <<>> THEN result_df
    ELSE AddColumns(SetColumn(result_df, Head(series).name,
                              Head(series).values),
                    Tail(series))

\* the stored table updated in place when it has the argument's index
ResultFrameReused(stored, weather_df) ==
    IF stored # NoneValue /\ stored.index = weather_df.index
    THEN stored ELSE weather_df

\* result_df = weather_df.copy(): a new table, built from the argument alone
ResultFrame(stored, weather_df) == weather_df

\* self._results assigned as soon as result_df exists
StoredOnRaiseEarly(stored, result_df) == result_df

\* self._results when run() raises: the assignment is the last statement
\* but one of run(), so the stored table is the one from before
StoredOnRaise(stored, result_df) == stored

\* Plant.run: what it raises, what it leaves in self._results, what it
\* warns about and which units it invoked
PlantRun(self, stored, weather_df, add_individual, responses) ==
    LET result_df == ResultFrame(stored, weather_df)
        prepared == PrepareWeatherData(weather_df)
        valid == ValidateWeatherDataframe(prepared)
        loop == RunUnits(self.plants, responses, 1,
                         [total_ac_power |-> Zeros(RowCount(prepared)),
                          ac_power_results |-> <<>>,
                          executed |-> <<>>,
                          raised |-> NoneValue])
        with_total == SetColumn(result_df, "ac", loop.total_ac_power)
    IN IF valid.raised # NoneValue
       THEN [ret |-> valid.raised,
             results |-> StoredOnRaise(stored, result_df),
             warned |-> NoneValue, executed |-> <<>>]
       ELSE IF loop.raised # NoneValue
       THEN [ret |-> loop.raised,
             results |-> StoredOnRaise(stored, result_df),
             warned |-> valid.warning, executed |-> loop.executed]
       ELSE [ret |-> Return(NoneValue),
             results |-> IF add_individual
                         THEN AddColumns(with_total, loop.ac_power_results)
                         ELSE with_total,
             warned |-> valid.warning, executed |-> loop.executed]

\* the stored value handed out whether or not a run has filled it
ResultsGetUnchecked(stored) == Return(stored)

\* Plant.results
ResultsGet(stored) ==
    IF stored = NoneValue
    THEN Raise("ValueError",
               "Plant results are not available. Run the model first.")
    ELSE Return(stored)

(***************************************************************************)
(* The calls run() is given.  A table that fails validation reaches no     *)
(* unit.  Every weather table is run with all units yielding and with the  *)
(* first unit raising, the pipeline's full table with every sequence of    *)
(* outcomes.                                                               *)
(***************************************************************************)
Reaches(weather_df) ==
    ValidateWeatherDataframe(PrepareWeatherData(weather_df)).raised
        = NoneValue

PlainResponses(N, n) ==
    { [k \in 1..N |-> Ok(UnitSeries(k, n))], <<Raises("ValueError")>> }

RunResponses(N, weather_df) ==
    IF ~Reaches(weather_df) THEN {<<>>}
    ELSE IF weather_df = PipelineWeather
    THEN Responses(N, RowCount(weather_df))
    ELSE PlainResponses(N, RowCount(weather_df))

RunCalls ==
    [N \in 1..MaxUnits |->
        {[weather_df |-> w, add_individual |-> b, responses |-> resp] :
            <<w, b, resp>> \in
                UNION {{w} \X BOOLEAN \X RunResponses(N, w) :
                        w \in WeatherTables}}]

(***************************************************************************)
(* State machine                                                           *)
(***************************************************************************)
\* WeatherAPIFactory.__init__: no class and no schema registered
NewFactory ==
    [apis |-> <<>>, schemas |-> <<>>, last |-> NoneValue, log |-> <<>>]

NoHist == [repeat |-> FALSE, regressed |-> FALSE, dropped |-> FALSE]

Init ==
    /\ ctor = NoneValue
    /\ plant = NoPlant
    /\ results = NoneValue
    /\ call = NoneValue
    /\ ret = NoneValue
    /\ warned = NoneValue
    /\ executed = <<>>
    /\ read = NoneValue
    /\ runs = 0
    /\ hist = NoHist
    /\ conv = NoneValue
    /\ val = NoneValue
    /\ res = NoneValue
    /\ factory = NewFactory
    /\ sys = NoneValue

\* plant_class(config, location, simple=is_simple)
Construct(option, config) ==
    /\ ctor = NoneValue
    /\ config \in option.schema
    /\ LET new == NewPlant(option.plant_class, config, option.is_simple)
       IN /\ ctor' = [plant_class |-> option.plant_class,
                      config |-> config,
                      simple |-> option.is_simple,
                      raised |-> new.raised]
          /\ plant' = new.plant
    /\ UNCHANGED <<results, call, ret, warned, executed, read, runs, hist,
                   conv, val, res, factory, sys>>

\* the units run() saw are dropped from the list
UnitsConsumed(units, done) ==
    SelectSeq(units, LAMBDA u : \A k \in Range(done) : units[k] # u)

\* self._plants after run(): the loop reads the list and nothing assigns it
UnitsAfterRun(units, done) == units

IndividualColumns(self) == {"ac_" \o self.plants[k].name : k \in DOMAIN self.plants}

HasIndividual(self, stored) ==
    /\ stored # NoneValue
    /\ ColumnNames(stored) \cap IndividualColumns(self) # {}

\* plant.run(weather_df, add_individual=add_individual).  Reading
\* `results` changes nothing in the plant, so the driver reads it after
\* construction and after every run before it runs the plant again: every
\* stored table is observed and no run is lost.
Run(weather_df, add_individual, responses) ==
    /\ plant # NoPlant
    /\ read # NoneValue
    /\ Len(plant.plants) <= MaxUnits
    /\ runs < MaxRuns
    /\ LET this == [weather_df |-> weather_df,
                    add_individual |-> add_individual,
                    responses |-> responses]
       IN \E out \in {PlantRun(plant, results, weather_df, add_individual,
                                responses)} :
          /\ call' = this
          /\ ret' = out.ret
          /\ results' = out.results
          /\ warned' = out.warned
          /\ executed' = out.executed
          /\ hist' = [repeat |-> call = this /\ ret = Return(NoneValue),
                      regressed |->
                          /\ call # NoneValue
                          /\ ret = Return(NoneValue)
                          /\ \E k \in DOMAIN responses :
                                /\ k \in DOMAIN call.responses
                                /\ call.responses[k].kind = "ok"
                                /\ responses[k] = Raises("RuntimeError"),
                      dropped |-> /\ HasIndividual(plant, results)
                                  /\ ~add_individual]
          /\ plant' = [plant EXCEPT
                          !.plants = UnitsAfterRun(@, out.executed)]
    /\ read' = NoneValue
    /\ runs' = runs + 1
    /\ UNCHANGED <<ctor, conv, val, res, factory, sys>>

\* plant.results
ReadResults ==
    /\ plant # NoPlant
    /\ read' = ResultsGet(results)
    /\ UNCHANGED <<ctor, plant, results, call, ret, warned, executed, runs,
                   hist, conv, val, res, factory, sys>>

Next ==
    \/ /\ ctor = NoneValue
       /\ \E k \in DOMAIN plant_options :
            \E config \in plant_options[k].schema :
                Construct(plant_options[k], config)
    \/ /\ plant # NoPlant
       /\ read # NoneValue
       /\ Len(plant.plants) <= MaxUnits
       /\ runs < MaxRuns
       /\ \E c \in RunCalls[Len(plant.plants)] :
            Run(c.weather_df, c.add_individual, c.responses)
    \/ ReadResults

Spec == Init /\ [][Next]_vars

(***************************************************************************)
(* Vocabulary of the properties                                            *)
(***************************************************************************)
RunCalled == call # NoneValue
RunReturned == RunCalled /\ ret.kind = "return"
RunRaised == RunCalled /\ ret.kind = "raise"

\* a weather table with rows, columns and a time index
WellShaped(weather_df) ==
    /\ Len(weather_df.index) > 0
    /\ Len(weather_df.columns) > 0
    /\ weather_df.index_kind = "DatetimeIndex"

UnitCount == Len(plant.plants)
Yielded(responses) == {k \in DOMAIN responses : responses[k].kind = "ok"}
RuntimeFailed(responses) ==
    {k \in DOMAIN responses : responses[k] = Raises("RuntimeError")}
OtherFailed(responses) ==
    {k \in DOMAIN responses :
        responses[k].kind = "raise" /\ responses[k].exc # "RuntimeError"}

\* value at row r of the sum of the series of the units in K
RECURSIVE RowSum(_, _, _)
RowSum(responses, K, r) ==
    IF K = {} THEN 0
    ELSE LET k == CHOOSE k \in K : TRUE
         IN responses[k].ac[r] + RowSum(responses, K \ {k}, r)

StoredAc == ColumnValues(results, "ac")

\* C1: when every unit either yields an AC series or raises a RuntimeError,
\* whichever subset raises, run() on a well-shaped weather table returns
\* without raising and the stored `ac` is, row by row, the sum of the series
\* of exactly the units that yielded.
C1_UnitFailureIsolation ==
    (/\ RunCalled
     /\ WellShaped(call.weather_df)
     /\ DOMAIN call.responses = 1..UnitCount
     /\ Yielded(call.responses) \cup RuntimeFailed(call.responses)
            = 1..UnitCount)
    => /\ ret = Return(NoneValue)
       /\ results # NoneValue
       /\ "ac" \in ColumnNames(results)
       /\ DOMAIN StoredAc = 1..Len(call.weather_df.index)
       /\ \A r \in DOMAIN StoredAc :
            StoredAc[r] = RowSum(call.responses, Yielded(call.responses), r)

\* a run of two units in which the first raised a RuntimeError and the
\* second yielded: the total is the second unit's series
C1_Witness ==
    /\ RunReturned
    /\ UnitCount = 2
    /\ RuntimeFailed(call.responses) = {1}
    /\ Yielded(call.responses) = {2}
    /\ StoredAc = call.responses[2].ac
    /\ \E r \in DOMAIN StoredAc : StoredAc[r] # 0

\* C2 as claimed: on a well-shaped weather table no error of a unit,
\* whatever its kind, propagates out of run(), and every unit is executed.
C2_NoUnitErrorPropagates ==
    (RunCalled /\ WellShaped(call.weather_df))
    => /\ ret.kind = "return"
       /\ executed = [k \in 1..UnitCount |-> k]

\* C2 amended: run() raises exactly for a weather table that is not
\* well-shaped or for a unit's error that is not a RuntimeError; that error
\* propagates and no later unit is executed.  A RuntimeError of a unit never
\* propagates: the unit is skipped and every remaining unit is executed.
C2_OnlyRuntimeErrorAbsorbed ==
    (RunCalled /\ WellShaped(call.weather_df))
    => LET others == OtherFailed(call.responses)
       IN /\ others = {}
              => /\ ret.kind = "return"
                 /\ executed = [k \in 1..UnitCount |-> k]
          /\ others # {}
              => \E k \in others :
                    /\ \A j \in others : k <= j
                    /\ ret.kind = "raise"
                    /\ ret.exc = call.responses[k].exc
                    /\ executed = [j \in 1..k |-> j]
          /\ ret.kind = "raise" => ret.exc \notin RuntimeErrors

\* a run in which the first unit raised a RuntimeError and the second,
\* yielding nothing, was still executed
C2_Witness ==
    /\ RunReturned
    /\ UnitCount = 2
    /\ call.responses = <<Raises("RuntimeError"), NoAc>>
    /\ executed = <<1, 2>>

\* C3: whenever run() returns, the stored result has an `ac` column with
\* one row per row of the input weather table, on that table's index; when
\* no unit yielded an AC series every `ac` value is 0.
C3_AcColumnShape ==
    RunReturned
    => /\ results # NoneValue
       /\ "ac" \in ColumnNames(results)
       /\ Len(StoredAc) = Len(call.weather_df.index)
       /\ results.index = call.weather_df.index
       /\ results.index_kind = call.weather_df.index_kind
       /\ Yielded(call.responses) = {}
            => \A r \in DOMAIN StoredAc : StoredAc[r] = 0

\* a returned run over MaxRows rows in which one unit raised and the other
\* yielded nothing
C3_Witness ==
    /\ RunReturned
    /\ UnitCount = 2
    /\ Len(call.weather_df.index) = MaxRows
    /\ call.responses = <<NoAc, Raises("RuntimeError")>>
    /\ StoredAc = [r \in 1..MaxRows |-> 0]

\* names of the per-unit columns a run of the plant can add
UnitColumns == {"ac_" \o plant.plants[k].name : k \in DOMAIN plant.plants}

\* C4: the result a run() stores is made of that call's weather table and
\* the series its units yielded in that call, whatever the plant held
\* before: the total is the sum of this call's series (a unit that yielded
\* before and fails now adds nothing), a run with the arguments and unit
\* outcomes of the run before it stores the same total, and without
\* add_individual the columns are the weather table's and `ac` only.
C4_NoCarryOver ==
    [][ (runs' = runs + 1 /\ ret'.kind = "return")
        => /\ results' # NoneValue
           /\ results'.index = call'.weather_df.index
           /\ ColumnNames(call'.weather_df) \cup {"ac"}
                \subseteq ColumnNames(results')
           /\ \A r \in DOMAIN ColumnValues(results', "ac") :
                ColumnValues(results', "ac")[r]
                    = RowSum(call'.responses, Yielded(call'.responses), r)
           /\ (call' = call /\ ret.kind = "return")
                => ColumnValues(results', "ac") = ColumnValues(results, "ac")
           /\ \A c \in ColumnNames(call'.weather_df) :
                ColumnValues(results', c) = ColumnValues(call'.weather_df, c)
           /\ ~call'.add_individual
                => ColumnNames(results')
                       = ColumnNames(call'.weather_df) \cup {"ac"}
      ]_vars

\* a second run, without add_individual, on a plant that held per-unit
\* columns, in which a unit that yielded in the first run raises
C4_Witness ==
    /\ RunReturned
    /\ runs = 2
    /\ hist.dropped
    /\ hist.regressed
    /\ ColumnNames(results) \cap UnitColumns = {}

\* C5: reading `results` before any run() has returned raises ValueError
\* 'Plant results are not available. Run the model first.'; once a run()
\* has returned, reading returns the stored table, which is the result of
\* the most recent run that returned: a returning run stores its own result
\* and a raising run leaves the stored table as it was.
C5_ResultsLifecycle ==
    /\ [](read # NoneValue
          => /\ (runs = 0 \/ (runs = 1 /\ ret.kind = "raise"))
                  => read = Raise("ValueError",
                      "Plant results are not available. Run the model first.")
             /\ read.kind = "raise" => results = NoneValue
             /\ read.kind = "return"
                  => read.value = results /\ results # NoneValue
             /\ RunReturned
                  => /\ read.kind = "return"
                     /\ read.value.index = call.weather_df.index
                     /\ \A r \in DOMAIN ColumnValues(read.value, "ac") :
                          ColumnValues(read.value, "ac")[r]
                              = RowSum(call.responses,
                                       Yielded(call.responses), r))
    /\ [][(runs' = runs + 1 /\ ret'.kind = "raise") => results' = results]_vars

\* `results` read after a second run that raised, on a plant whose first
\* run returned: the read returns the first run's table
C5_Witness ==
    /\ runs = 2
    /\ RunRaised
    /\ read.kind = "return"
    /\ read.value = results
    /\ "ac" \in ColumnNames(read.value)

C7_OneColumnPerYieldingUnit ==
    (RunReturned /\ call.add_individual)
    => LET yielded == Yielded(call.responses)
           columnOf(k) == "ac_" \o plant.plants[k].name
       IN /\ Len(results.columns)
                = Len(call.weather_df.columns) + 1 + Cardinality(yielded)
          /\ \A k \in yielded : columnOf(k) \in ColumnNames(results)
          /\ \A k \in (1..UnitCount) \ yielded :
                columnOf(k) \notin ColumnNames(results)
          /\ \A j, k \in yielded : j # k => columnOf(j) # columnOf(k)

\* number of units the configuration asks for
RECURSIVE InverterTotal(_)
InverterTotal(arrays) ==
    IF arrays = <<>> THEN 0
    ELSE Head(arrays).nr_inverters + InverterTotal(Tail(arrays))

\* C8: construction builds one unit for a string plant, simple or full,
\* the sum of nr_inverters over the arrays for a full micro-inverter plant
\* and one unit per array for a simple micro-inverter plant.
C8_UnitCount ==
    plant # NoPlant
    => /\ ctor.plant_class = "StringPlant" => Len(plant.plants) = 1
       /\ (ctor.plant_class = "MicroPlant" /\ ~ctor.simple)
            => Len(plant.plants) = InverterTotal(ctor.config.arrays)
       /\ (ctor.plant_class = "MicroPlant" /\ ctor.simple)
            => Len(plant.plants) = Len(ctor.config.arrays)

\* a full micro-inverter plant of two arrays with 2 and 1 inverters: 3 units
C8_Witness ==
    /\ plant # NoPlant
    /\ ctor.plant_class = "MicroPlant"
    /\ ~ctor.simple
    /\ Len(ctor.config.arrays) = 2
    /\ ctor.config.arrays[1].nr_inverters = 2
    /\ ctor.config.arrays[2].nr_inverters = 1
    /\ Len(plant.plants) = 3

\* the columns run() checks, and those of them a table lacks once its
\* columns are renamed
CheckedColumns == {"ghi", "dni", "dhi", "temp_air", "wind_speed"}
AbsentColumns(weather_df) ==
    CheckedColumns \ {Rename(c) : c \in ColumnNames(weather_df)}
NamedColumns == IF warned = NoneValue THEN {} ELSE Range(warned.missing_cols)

\* C9 as claimed: on a weather table that passes validation run() warns
\* if and only if a checked column is absent, the warning names exactly the
\* absent columns, and the run stores a result.
C9_WarningAndResult ==
    (RunCalled /\ WellShaped(call.weather_df))
    => LET absent == AbsentColumns(call.weather_df)
       IN /\ warned # NoneValue <=> absent # {}
          /\ NamedColumns = absent
          /\ ret.kind = "return" /\ results # NoneValue

\* C9 amended: on a weather table that passes validation run() warns if and
\* only if a checked column is absent and the warning names exactly the
\* absent columns, each once; the units are then executed, and a result is
\* stored unless a unit raises an error other than a RuntimeError.
C9_WarningNamesAbsentColumns ==
    (RunCalled /\ WellShaped(call.weather_df))
    => LET absent == AbsentColumns(call.weather_df)
       IN /\ warned # NoneValue <=> absent # {}
          /\ NamedColumns = absent
          /\ warned # NoneValue
                => Len(warned.missing_cols) = Cardinality(absent)
          /\ executed # <<>>
          /\ OtherFailed(call.responses) = {}
                => /\ ret.kind = "return"
                   /\ results # NoneValue
                   /\ results.index = call.weather_df.index

\* a returned run on a table with the irradiance columns and `temperature`,
\* which is renamed to temp_air: the warning names wind_speed alone
C9_Witness ==
    /\ RunReturned
    /\ ColumnNames(call.weather_df) = IrradianceColumns \cup {"temperature"}
    /\ warned # NoneValue
    /\ warned.missing_cols = <<"wind_speed">>
    /\ results # NoneValue

\* identifiers a configuration refers to
ReferencedModules(config) ==
    {config.arrays[k].module : k \in DOMAIN config.arrays}
ReferencedInverters(config) ==
    (IF "inverter" \in DOMAIN config THEN {config.inverter} ELSE {})
    \cup {config.arrays[k].inverter :
            k \in {j \in DOMAIN config.arrays :
                    "inverter" \in DOMAIN config.arrays[j]}}

\* C10: constructing a full-mode plant whose configuration refers to a
\* module or inverter the component database lacks raises a KeyError that
\* names such an identifier, 'Invalid module in configuration: <id>' if a
\* module is unknown and otherwise 'Invalid inverter in configuration:
\* <id>', and leaves no plant and no unit; with every identifier known the
\* plant is built.
C10_UnknownComponent ==
    (ctor # NoneValue /\ ~ctor.simple)
    => LET badModules == ReferencedModules(ctor.config) \ CECMod
           badInverters == ReferencedInverters(ctor.config) \ CECInverter
       IN /\ badModules # {}
              => /\ plant = NoPlant
                 /\ \E id \in badModules :
                        ctor.raised = Raise("KeyError",
                            "Invalid module in configuration: '" \o id \o "'")
          /\ (badModules = {} /\ badInverters # {})
              => /\ plant = NoPlant
                 /\ \E id \in badInverters :
                        ctor.raised = Raise("KeyError",
                            "Invalid inverter in configuration: '"
                                \o id \o "'")
          /\ (badModules = {} /\ badInverters = {})
              => ctor.raised = NoneValue /\ plant # NoPlant

\* a micro-inverter configuration whose first array has an unknown
\* inverter and whose second array has an unknown module: the module is
\* the one reported
C10_Witness ==
    /\ ctor # NoneValue
    /\ ctor.plant_class = "MicroPlant"
    /\ ~ctor.simple
    /\ Len(ctor.config.arrays) = 2
    /\ ctor.config.arrays[1].module = "mod_a"
    /\ ctor.config.arrays[1].inverter = "inv_x"
    /\ ctor.config.arrays[2].module = "mod_y"
    /\ ctor.raised
        = Raise("KeyError", "Invalid module in configuration: 'mod_y'")
    /\ plant = NoPlant

(***************************************************************************)
(* Irradiance engine: weather/atmospheric.py                               *)
(*                                                                         *)
(* Cells of the engine's tables are floats: a number or NaN.  Irradiances  *)
(* are whole W/m2 and cloud cover whole percents; the inputs are chosen    *)
(* so that every product of the two models is a whole number.              *)
(***************************************************************************)
Num(v) == [nan |-> FALSE, v |-> v]
NaN == [nan |-> TRUE, v |-> 0]

Minus(a, b) == IF a.nan \/ b.nan THEN NaN ELSE Num(a.v - b.v)
Plus(a, b) == IF a.nan \/ b.nan THEN NaN ELSE Num(a.v + b.v)
Times(a, b) == IF a.nan \/ b.nan THEN NaN ELSE Num(a.v * b.v)

\* a / n for a whole number n
Over(a, n) == IF a.nan THEN NaN ELSE Num(a.v \div n)

\* cloud cover of a record, in percent: clear, half covered, overcast, a
\* value outside the validator's range, and a missing value
CloudCovers == {Num(0), Num(50), Num(100), Num(200), NaN}

\* the cloud-cover tables: `covers` on either kind of index, with and
\* without the cloud_cover column, and the table without any column
CloudCoverColumns == {{"cloud_cover", "temperature"}, {"temperature"}, {}}

CloudCoverTable(kind, covers, colset) ==
    LET n == Len(covers)
        names == SelectSeq(<<"cloud_cover", "temperature">>,
                           LAMBDA c : c \in colset)
    IN [index_kind |-> kind,
        index |-> [r \in 1..n |-> r],
        columns |-> [k \in 1..Len(names) |->
            Column(names[k],
                   IF names[k] = "cloud_cover" THEN covers
                   ELSE [r \in 1..n |-> Num(10 * r)])]]

(***************************************************************************)
(* pvlib at a record's timestamp.  The sun is high (zenith 0, air mass 1), *)
(* below the horizon, or at a position where the models are undefined.     *)
(***************************************************************************)
Suns == {"noon", "night", "undefined"}

\* location.get_clearsky(times, "ineichen", solpos)["ghi"]
ClearSkyGhi(sun) ==
    CASE sun = "noon" -> Num(800)
      [] sun = "night" -> Num(0)
      [] OTHER -> NaN

\* np.cos(np.radians(solpos["zenith"]))
CosZenith(sun) ==
    CASE sun = "noon" -> Num(1)
      [] sun = "night" -> Num(-1)
      [] OTHER -> NaN

\* pvlib.irradiance.disc(ghi, zenith, times)["dni"]: half of the global
\* irradiance is direct when the sun is high; zero below the horizon and
\* for a negative ghi; NaN where an input is NaN
Disc(ghi, sun) ==
    IF ghi.nan \/ sun = "undefined" THEN NaN
    ELSE IF sun = "night" \/ ghi.v < 0 THEN Num(0)
    ELSE Over(ghi, 2)

\* pvlib.irradiance.get_extra_radiation(times)
DniExtra == 1360

\* pvlib.irradiance.campbell_norman(zen, transmittance, dni_extra) at air
\* mass 1, for a transmittance in 1/10000: dni = dni_extra * tau,
\* dhi = 0.3 * (1 - tau) * dni_extra * cos(zen), ghi = dhi + dni * cos(zen);
\* the air mass, and with it every component, is NaN beyond the horizon
CampbellNorman(sun, transmittance) ==
    IF sun # "noon" \/ transmittance.nan
    THEN [ghi |-> NaN, dni |-> NaN, dhi |-> NaN]
    ELSE LET dni == (DniExtra * transmittance.v) \div 10000
             dhi == (3 * (10000 - transmittance.v) * DniExtra) \div 100000
         IN [ghi |-> Num(dhi + dni), dni |-> Num(dni), dhi |-> Num(dhi)]

(***************************************************************************)
(* The two conversions                                                     *)
(***************************************************************************)
\* the clear-sky ghi scaled by the uncovered share of the sky alone
GhiLinearNoOffset(cloud_cover, ghi_clear, offset) ==
    Over(Times(Times(Num(100), Minus(Num(100), cloud_cover)), ghi_clear),
         10000)

\* _cloud_cover_to_ghi_linear(cloud_cover, ghi_clear, offset), offset in
\* percent: (offset/100 + (1 - offset/100) * (1 - cloud_cover/100))
\*          * ghi_clear
GhiLinear(cloud_cover, ghi_clear, offset) ==
    Over(Times(Plus(Num(offset * 100),
                    Times(Num(100 - offset), Minus(Num(100), cloud_cover))),
               ghi_clear),
         10000)

\* the default of _cloud_cover_to_ghi_linear's offset
GhiOffset == 35

\* _cloud_cover_to_transmittance_linear(cloud_cover, offset=0.75), in
\* 1/10000: ((100 - cloud_cover) / 100) * offset
TransmittanceLinear(cloud_cover) ==
    Times(Minus(Num(100), cloud_cover), Num(75))

IrradianceOrder == <<"ghi", "dni", "dhi">>

\* the table left as it is
FillNaNone(df, v) == df

\* df.fillna(v)
FillNa(df, v) ==
    [df EXCEPT !.columns =
        [k \in DOMAIN @ |->
            Column(@[k].name,
                   [r \in DOMAIN @[k].values |->
                        IF @[k].values[r].nan THEN v ELSE @[k].values[r]])]]

\* pd.DataFrame({"ghi": ..., "dni": ..., "dhi": ...}) of per-row records
IrradianceFrame(index_kind, index, rows) ==
    [index_kind |-> index_kind,
     index |-> index,
     columns |-> [k \in 1..3 |->
        Column(IrradianceOrder[k],
               [r \in DOMAIN rows |-> rows[r][IrradianceOrder[k]]])]]

\* _cloud_cover_to_irradiance_clearsky_scaling: ghi is an array, dni the
\* series DISC returns on `times`, dhi an array; the frame built from them
\* takes the index of the series
ClearskyScaling(cloud_cover, suns, times) ==
    LET cover == ColumnValues(cloud_cover, "cloud_cover")
        row(r) ==
            LET ghi == GhiLinear(cover[r], ClearSkyGhi(suns[r]), GhiOffset)
                dni == Disc(ghi, suns[r])
            IN [ghi |-> ghi, dni |-> dni,
                dhi |-> Minus(ghi, Times(dni, CosZenith(suns[r])))]
    IN FillNa(IrradianceFrame("DatetimeIndex", times,
                              [r \in DOMAIN cover |-> row(r)]),
              Num(0))

\* _cloud_cover_to_irradiance_campbell_norman: zenith, extraterrestrial
\* irradiance and transmittance are arrays, and so are the model's ghi, dni
\* and dhi; the frame built from arrays alone has the default index
\* 0..n-1
CampbellNormanFrame(cloud_cover, suns, times) ==
    LET cover == ColumnValues(cloud_cover, "cloud_cover")
    IN FillNa(IrradianceFrame("RangeIndex",
                              [r \in DOMAIN cover |-> r - 1],
                              [r \in DOMAIN cover |->
                                  CampbellNorman(suns[r],
                                      TransmittanceLinear(cover[r]))]),
              Num(0))

(***************************************************************************)
(* pd.concat([left, right], axis=1): the rows of the two tables are        *)
(* matched by index label.  Tables with the same index are set side by     *)
(* side; otherwise the result has every label of either table and NaN      *)
(* where a table has no row of that label.                                 *)
(***************************************************************************)
Labels(df) ==
    [r \in DOMAIN df.index |-> [kind |-> df.index_kind, at |-> df.index[r]]]

\* the columns of df on the index `labels`
Reindexed(df, labels) ==
    [k \in DOMAIN df.columns |->
        Column(df.columns[k].name,
               [j \in DOMAIN labels |->
                   IF \E r \in DOMAIN df.index : Labels(df)[r] = labels[j]
                   THEN df.columns[k].values[
                            CHOOSE r \in DOMAIN df.index :
                                Labels(df)[r] = labels[j]]
                   ELSE NaN])]

ConcatColumns(left, right) ==
    IF Labels(left) = Labels(right)
    THEN [left EXCEPT !.columns = @ \o right.columns]
    ELSE LET labels ==
                 Labels(left)
                 \o SelectSeq(Labels(right),
                              LAMBDA l : l \notin Range(Labels(left)))
         IN [index_kind |-> "Index",
             index |-> labels,
             columns |-> Reindexed(left, labels)
                            \o Reindexed(right, labels)]

(***************************************************************************)
(* cloud_cover_to_irradiance                                               *)
(***************************************************************************)
\* the values given for `how`
Hows ==
    {"clearsky_scaling", "campbell_norman", "CLEARSKY_SCALING",
     "Campbell_Norman", "invalid_method", "Invalid_Method"}

\* the argument compared as it was given
LowerNone(how) == how

\* how.lower()
Lower(how) ==
    CASE how = "CLEARSKY_SCALING" -> "clearsky_scaling"
      [] how = "Campbell_Norman" -> "campbell_norman"
      [] how = "Invalid_Method" -> "invalid_method"
      [] OTHER -> how

\* cloud_cover["cloud_cover"] of a table without that column
NoCloudCover == Raise("KeyError", "'cloud_cover'")

\* the conversion once the argument checks have passed
Irradiances(cloud_cover, suns, how) ==
    IF how = "clearsky_scaling"
    THEN IF "cloud_cover" \notin ColumnNames(cloud_cover) THEN NoCloudCover
         ELSE Return(ClearskyScaling(cloud_cover, suns, cloud_cover.index))
    ELSE IF how = "campbell_norman"
    THEN IF "cloud_cover" \notin ColumnNames(cloud_cover) THEN NoCloudCover
         ELSE Return(CampbellNormanFrame(cloud_cover, suns,
                                         cloud_cover.index))
    ELSE Raise("ValueError", "Invalid how argument: " \o how)

CloudCoverToIrradiance(cloud_cover, suns, how, merge) ==
    IF cloud_cover.index_kind # "DatetimeIndex"
    THEN Raise("ValueError",
               "cloud_cover DataFrame index must be a pd.DatetimeIndex.")
    ELSE IF IsEmpty(cloud_cover)
    THEN Raise("ValueError", "cloud_cover DataFrame is empty.")
    ELSE LET irrads == Irradiances(cloud_cover, suns, Lower(how))
         IN IF irrads.kind = "raise" THEN irrads
            ELSE IF merge
            THEN Return(ConcatColumns(cloud_cover, irrads.value))
            ELSE irrads

\* cloud_cover_to_irradiance(cloud_cover, location, how=how, merge=merge)
Convert(cloud_cover, suns, how, merge) ==
    /\ conv = NoneValue
    /\ conv' = [cloud_cover |-> cloud_cover, suns |-> suns, how |-> how,
                merge |-> merge,
                ret |-> CloudCoverToIrradiance(cloud_cover, suns, how,
                                               merge)]
    /\ UNCHANGED <<ctor, plant, results, call, ret, warned, executed, read,
                   runs, hist, val, res, factory, sys>>

\* cloud cover and clear-sky ghi of a direct call of the linear model
LinearCovers == {Num(10 * k) : k \in 0..10}
LinearClearSky == {Num(0), Num(800), Num(2000)}

\* _cloud_cover_to_ghi_linear(cloud_cover, ghi_clear) over two arrays
LinearGhi(cloud_cover, ghi_clear) ==
    /\ conv = NoneValue
    /\ conv' = [cloud_cover |-> cloud_cover, ghi_clear |-> ghi_clear,
                ghi |-> [r \in DOMAIN cloud_cover |->
                            GhiLinear(cloud_cover[r], ghi_clear[r],
                                      GhiOffset)]]
    /\ UNCHANGED <<ctor, plant, results, call, ret, warned, executed, read,
                   runs, hist, val, res, factory, sys>>

NextConvert ==
    \/ /\ conv = NoneValue
       /\ \E n \in 0..MaxRows :
            \E kind \in {"DatetimeIndex", "RangeIndex"},
               covers \in [1..n -> CloudCovers],
               colset \in CloudCoverColumns, suns \in [1..n -> Suns],
               how \in Hows, merge \in BOOLEAN :
                Convert(CloudCoverTable(kind, covers, colset), suns, how,
                        merge)
    \/ /\ conv = NoneValue
       /\ \E n \in 1..MaxRows :
            \E cloud_cover \in [1..n -> LinearCovers],
               ghi_clear \in [1..n -> LinearClearSky] :
                LinearGhi(cloud_cover, ghi_clear)

SpecConvert == Init /\ [][NextConvert]_vars

(***************************************************************************)
(* Vocabulary of the claims about the irradiance engine                    *)
(***************************************************************************)
ConvCalled == conv # NoneValue /\ "how" \in DOMAIN conv
ConvReturned == ConvCalled /\ conv.ret.kind = "return"
ConvRaised == ConvCalled /\ conv.ret.kind = "raise"
LinearCalled == conv # NoneValue /\ "ghi" \in DOMAIN conv

Methods == {"clearsky_scaling", "campbell_norman"}

\* a time-indexed table with at least one record and a cloud_cover column
Convertible(df) ==
    /\ df.index_kind = "DatetimeIndex"
    /\ Len(df.index) > 0
    /\ "cloud_cover" \in ColumnNames(df)

\* the irradiance table of the same call made without merge
Unmerged ==
    CloudCoverToIrradiance(conv.cloud_cover, conv.suns, conv.how,
                           FALSE).value

\* C11: for both methods, convert with merge=True on an N-row time-indexed
\* table returns a table of exactly N rows holding every input column,
\* unchanged and without a missing value, and ghi, dni and dhi, the
\* irradiances of a record on the row of that record.
C11_MergeKeepsRows ==
    (/\ ConvCalled
     /\ conv.merge
     /\ conv.how \in Methods
     /\ Convertible(conv.cloud_cover))
    => /\ ConvReturned
       /\ RowCount(conv.ret.value) = RowCount(conv.cloud_cover)
       /\ ColumnNames(conv.cloud_cover) \cup {"ghi", "dni", "dhi"}
            \subseteq ColumnNames(conv.ret.value)
       /\ \A c \in ColumnNames(conv.cloud_cover) :
            ColumnValues(conv.ret.value, c)
                = ColumnValues(conv.cloud_cover, c)
       /\ \A c \in {"ghi", "dni", "dhi"} :
            ColumnValues(conv.ret.value, c) = ColumnValues(Unmerged, c)

ClearskyHows == {"clearsky_scaling", "CLEARSKY_SCALING"}
CampbellHows == {"campbell_norman", "Campbell_Norman"}

InputCover == ColumnValues(conv.cloud_cover, "cloud_cover")

\* the records at which the models of the call's method yield NaN: the sun
\* where the models are undefined, a missing cloud cover, and for
\* Campbell-Norman the sun below the horizon
ModelUndefined(r) ==
    \/ conv.suns[r] = "undefined"
    \/ InputCover[r].nan
    \/ conv.how \in CampbellHows /\ conv.suns[r] = "night"

\* the cloud cover of record r is a number within the validator's range
CoverInRange(r) ==
    /\ ~InputCover[r].nan
    /\ InputCover[r].v >= 0
    /\ InputCover[r].v <= 100

\* C12 as claimed: for both methods and every input convert accepts, the
\* irradiance table has one row per input record, no ghi, dni or dhi is NaN
\* or negative, and a NaN of the model is 0 in the output.
C12_NeverNaNNeverNegative ==
    (ConvReturned /\ ~conv.merge)
    => /\ RowCount(conv.ret.value) = RowCount(conv.cloud_cover)
       /\ \A c \in {"ghi", "dni", "dhi"} :
            \A r \in DOMAIN InputCover :
                LET x == ColumnValues(conv.ret.value, c)[r]
                IN /\ ~x.nan
                   /\ x.v >= 0
                   /\ ModelUndefined(r) => x = Num(0)

\* C12 (amended): for both methods the irradiance table has one row per
\* input record and no NaN, a NaN of the model being 0 in the output; its
\* values are not negative at the records whose cloud cover is within
\* [0,100].
C12_NoNaNAndNonNegativeInRange ==
    (ConvReturned /\ ~conv.merge)
    => /\ RowCount(conv.ret.value) = RowCount(conv.cloud_cover)
       /\ \A c \in {"ghi", "dni", "dhi"} :
            \A r \in DOMAIN InputCover :
                LET x == ColumnValues(conv.ret.value, c)[r]
                IN /\ ~x.nan
                   /\ ModelUndefined(r) => x = Num(0)
                   /\ CoverInRange(r) => x.v >= 0

\* a two-record conversion in which the models are undefined at the first
\* record and yield positive irradiances at the second
C12_Witness ==
    /\ ConvReturned
    /\ ~conv.merge
    /\ conv.how = "clearsky_scaling"
    /\ RowCount(conv.cloud_cover) = 2
    /\ conv.suns = <<"undefined", "noon">>
    /\ InputCover[2] = Num(50)
    /\ ColumnValues(conv.ret.value, "dni")[1] = Num(0)
    /\ ColumnValues(conv.ret.value, "dni")[2].v > 0
    /\ ColumnValues(conv.ret.value, "dhi")[2].v > 0

\* C13: convert on an empty cloud-cover table raises no error and returns
\* an empty irradiance table, for either method.
C13_EmptyPassesThrough ==
    (/\ ConvCalled
     /\ conv.how \in Methods
     /\ IsEmpty(conv.cloud_cover))
    => /\ ConvReturned
       /\ IsEmpty(conv.ret.value)

\* the well-formed tables: time-indexed and not empty
NotRefused(df) == df.index_kind = "DatetimeIndex" /\ ~IsEmpty(df)

InvalidHows == {"invalid_method", "Invalid_Method"}

\* C14 as claimed: convert on a well-formed table with a method other than
\* clearsky_scaling or campbell_norman raises the ValueError 'Invalid how
\* argument: <value>' with the value it was given, and returns no table.
C14_InvalidHowNamesGivenValue ==
    (/\ ConvCalled
     /\ NotRefused(conv.cloud_cover)
     /\ conv.how \notin Methods)
    => conv.ret = Raise("ValueError", "Invalid how argument: " \o conv.how)

\* C14 (amended): the method is compared in lower case.  On a well-formed
\* table a value that is neither method in lower case raises the
\* ValueError 'Invalid how argument: <value in lower case>' and no table is
\* returned; a method written with capitals is that method, and gives what
\* the method's name in lower case gives.
C14_InvalidHowInLowerCase ==
    (ConvCalled /\ NotRefused(conv.cloud_cover))
    => /\ conv.how \in InvalidHows
            => conv.ret = Raise("ValueError",
                                "Invalid how argument: invalid_method")
       /\ conv.how \in ClearskyHows
            => conv.ret = CloudCoverToIrradiance(conv.cloud_cover,
                              conv.suns, "clearsky_scaling", conv.merge)
       /\ conv.how \in CampbellHows
            => conv.ret = CloudCoverToIrradiance(conv.cloud_cover,
                              conv.suns, "campbell_norman", conv.merge)
       /\ conv.how \notin InvalidHows
            => ~(/\ conv.ret.kind = "raise"
                 /\ conv.ret.exc = "ValueError")

\* a call with 'Invalid_Method', refused under the name 'invalid_method'
C14_Witness ==
    /\ ConvRaised
    /\ conv.how = "Invalid_Method"
    /\ Convertible(conv.cloud_cover)
    /\ conv.ret.msg = "Invalid how argument: invalid_method"

\* C15: in the clearsky-scaling method
\* ghi = (offset_frac + (1 - offset_frac) * (1 - cloud_cover/100))
\*       * ghi_clear with offset_frac 0.35 by default: a cloud cover of 0 %
\* gives ghi_clear, one of 100 % gives 0.35 * ghi_clear, and for a cloud
\* cover within [0,100] ghi lies between the two and does not increase
\* when the cloud cover increases.
C15_LinearBlend ==
    /\ LinearCalled
        => \A r \in DOMAIN conv.ghi :
            LET cover == conv.cloud_cover[r].v
                clear == conv.ghi_clear[r].v
                ghi == conv.ghi[r].v
            IN /\ ~conv.ghi[r].nan
               /\ 10000 * ghi = (3500 + 65 * (100 - cover)) * clear
               /\ cover = 0 => ghi = clear
               /\ cover = 100 => 100 * ghi = 35 * clear
               /\ 100 * ghi >= 35 * clear
               /\ ghi <= clear
               /\ \A q \in DOMAIN conv.ghi :
                    (/\ conv.ghi_clear[q] = conv.ghi_clear[r]
                     /\ conv.cloud_cover[q].v >= cover)
                    => conv.ghi[q].v <= ghi
    /\ (ConvReturned /\ conv.how \in ClearskyHows /\ ~conv.merge)
        => \A r \in DOMAIN InputCover :
            (conv.suns[r] = "noon" /\ ~InputCover[r].nan)
            => 10000 * ColumnValues(conv.ret.value, "ghi")[r].v
                 = (3500 + 65 * (100 - InputCover[r].v))
                    * ClearSkyGhi("noon").v

\* the linear model applied to a clear and an overcast record under the
\* same clear-sky ghi
C15_Witness ==
    /\ LinearCalled
    /\ Len(conv.ghi) = 2
    /\ conv.cloud_cover = <<Num(0), Num(100)>>
    /\ conv.ghi_clear = <<Num(800), Num(800)>>
    /\ conv.ghi = <<Num(800), Num(280)>>

(***************************************************************************)
(* Weather validator: weather/const.py and WeatherAPI._validate            *)
(*                                                                         *)
(* A record is a function from its keys to numbers; a datetime is the      *)
(* number of hours since some instant.  The keys of a record are visited   *)
(* in the order of FieldOrder, the order of the provider's columns.        *)
(***************************************************************************)
FieldOrder ==
    <<"datetime", "temperature", "humidity", "wind_speed", "wind_direction",
      "cloud_cover", "ghi", "dni", "dhi", "pressure">>

\* vol.Required(...) and vol.Optional(...) of WEATHER_SCHEMA
RequiredKeys ==
    {"datetime", "temperature", "humidity", "wind_speed", "cloud_cover"}
OptionalKeys == {"wind_direction", "ghi", "dni", "dhi"}

NoBound == [kind |-> "None"]
Bound(b) == [kind |-> "bound", b |-> b]

\* vol.Range(min=..., max=...) of each float key
Ranges ==
    [temperature |-> [min |-> Bound(-100), max |-> Bound(100)],
     humidity |-> [min |-> Bound(0), max |-> Bound(100)],
     wind_speed |-> [min |-> Bound(0), max |-> NoBound],
     wind_direction |-> [min |-> Bound(0), max |-> NoBound],
     cloud_cover |-> [min |-> Bound(0), max |-> Bound(100)],
     ghi |-> [min |-> Bound(0), max |-> Bound(1400)],
     dni |-> [min |-> Bound(0), max |-> Bound(1400)],
     dhi |-> [min |-> Bound(0), max |-> Bound(1400)]]

Without(rec, key) == [k \in DOMAIN rec \ {key} |-> rec[k]]
With(rec, key, v) ==
    [k \in DOMAIN rec \cup {key} |-> IF k = key THEN v ELSE rec[k]]

\* a record within every range, at hour t
GoodRecord(t) ==
    [datetime |-> t, temperature |-> 20, humidity |-> 50, wind_speed |-> 5,
     cloud_cover |-> 30]

\* what can be wrong with a record: a required key left out, a value out
\* of its range, two of them, an optional value out of range, a key the
\* schema does not know; and an optional value in range
Defects ==
    {[kind |-> "none"], [kind |-> "optional"], [kind |-> "two"],
     [kind |-> "extra"], [kind |-> "bad_optional"]}
    \cup {[kind |-> "missing", key |-> k] : k \in RequiredKeys}
    \cup {[kind |-> "bad", key |-> k] : k \in RequiredKeys \ {"datetime"}}

OutOfRange ==
    [temperature |-> 150, humidity |-> -5, wind_speed |-> -1,
     cloud_cover |-> 120]

Record(t, defect) ==
    CASE defect.kind = "none" -> GoodRecord(t)
      [] defect.kind = "optional" -> With(GoodRecord(t), "ghi", 500)
      [] defect.kind = "bad_optional" -> With(GoodRecord(t), "ghi", 2000)
      [] defect.kind = "extra" -> With(GoodRecord(t), "pressure", 1013)
      [] defect.kind = "two" ->
            With(With(GoodRecord(t), "temperature", 150), "cloud_cover", 120)
      [] defect.kind = "missing" -> Without(GoodRecord(t), defect.key)
      [] defect.kind = "bad" ->
            With(GoodRecord(t), defect.key, OutOfRange[defect.key])

\* hours between consecutive records
Deltas == {-1, 0, 1, 2}
FirstHour == 10

RECURSIVE Hours(_)
Hours(deltas) ==
    IF deltas = <<>> THEN <<FirstHour>>
    ELSE LET before == Hours(SubSeq(deltas, 1, Len(deltas) - 1))
         IN Append(before, before[Len(before)] + deltas[Len(deltas)])

\* a sequence given to the validator: its records at the hours the steps
\* give, each with the defect chosen for it
WeatherSequence(deltas, defects) ==
    [i \in DOMAIN defects |-> Record(Hours(deltas)[i], defects[i])]

\* at most two records with something wrong
FewDefects(defects) ==
    Cardinality({i \in DOMAIN defects :
        defects[i].kind \notin {"none", "optional"}}) <= 2

(***************************************************************************)
(* voluptuous over WEATHER_SCHEMA.  An error has a message, the path of    *)
(* the value it is about and, for a value of a dictionary, the words       *)
(* "dictionary value"; a MultipleInvalid carries a list of errors and      *)
(* prints as the first of them.                                            *)
(***************************************************************************)
NoPath == [index |-> -1, key |-> ""]
Path(i, key) == [index |-> i, key |-> key]

Invalid(msg, error_type, path) ==
    [msg |-> msg, error_type |-> error_type, path |-> path]

\* str(error)
Str(e) ==
    e.msg
    \o (IF e.error_type = "" THEN "" ELSE " for " \o e.error_type)
    \o (IF e.path = NoPath THEN ""
        ELSE " @ data[" \o ToString(e.path.index) \o "]['"
             \o e.path.key \o "']")

\* raise MultipleInvalid(errors); str(exc) is str(errors[0])
MultipleInvalid(errors) ==
    [kind |-> "raise", exc |-> "MultipleInvalid",
     msg |-> Str(errors[1]), errors |-> errors]

\* vol.All(vol.Coerce(float), vol.Range(min=..., max=...)) on a number
RangeErrors(key, v, i) ==
    LET range == Ranges[key]
    IN IF range.min # NoBound /\ ~(v >= range.min.b)
       THEN <<Invalid("value must be at least " \o ToString(range.min.b),
                      "dictionary value", Path(i, key))>>
       ELSE IF range.max # NoBound /\ ~(v <= range.max.b)
       THEN <<Invalid("value must be at most " \o ToString(range.max.b),
                      "dictionary value", Path(i, key))>>
       ELSE <<>>

\* the keys of the record in turn: a key the schema does not have is an
\* error, a value is validated by the validator of its key
RECURSIVE KeyErrors(_, _, _)
KeyErrors(rec, i, k) ==
    IF k > Len(FieldOrder) THEN <<>>
    ELSE LET key == FieldOrder[k]
             rest == KeyErrors(rec, i, k + 1)
         IN IF key \notin DOMAIN rec THEN rest
            ELSE IF key \notin RequiredKeys \cup OptionalKeys
            THEN <<Invalid("extra keys not allowed", "", Path(i, key))>>
                 \o rest
            ELSE IF key = "datetime" THEN rest
            ELSE RangeErrors(key, rec[key], i) \o rest

\* then the required keys the record does not have
RequiredErrors(rec, i) ==
    LET missing == SelectSeq(FieldOrder,
                        LAMBDA k : k \in RequiredKeys /\ k \notin DOMAIN rec)
    IN [j \in DOMAIN missing |->
           Invalid("required key not provided", "", Path(i, missing[j]))]

\* the dictionary schema on record i (counted from 0): every error of the
\* record
MappingErrors(rec, i) == KeyErrors(rec, i, 1) \o RequiredErrors(rec, i)

\* the list schema: the records in turn; the errors of a record lie deeper
\* than the record, so the first record with an error ends the validation
\* with the errors of that record
RECURSIVE SequenceErrors(_, _)
SequenceErrors(data, k) ==
    IF k > Len(data) THEN <<>>
    ELSE IF MappingErrors(data[k], k - 1) # <<>>
    THEN MappingErrors(data[k], k - 1)
    ELSE SequenceErrors(data, k + 1)

\* vol.Length(min=1)
LengthErrors(data) ==
    IF Len(data) < 1
    THEN <<Invalid("length of value must be at least 1", "", NoPath)>>
    ELSE <<>>

\* np.diff(timestamps)
Diff(timestamps) ==
    [k \in 1..(Len(timestamps) - 1) |-> timestamps[k + 1] - timestamps[k]]

\* the timestamps in ascending order, whatever the steps
EvenlySpacedAscending(dt_diffs) ==
    \A k \in DOMAIN dt_diffs : dt_diffs[k] > 0

\* all(dt_diffs == dt_diffs[0])
EvenlySpaced(dt_diffs) ==
    \A k \in DOMAIN dt_diffs : dt_diffs[k] = dt_diffs[1]

\* _validate_sorted_and_evenly_spaced(data): dt_diffs[0] of an empty array
\* of differences is an IndexError
ValidateSortedAndEvenlySpaced(data) ==
    LET timestamps == [k \in DOMAIN data |-> data[k].datetime]
        dt_diffs == Diff(timestamps)
    IN IF dt_diffs = <<>>
       THEN Raise("IndexError",
                  "index 0 is out of bounds for axis 0 with size 0")
       ELSE IF ~EvenlySpaced(dt_diffs)
       THEN MultipleInvalid(<<Invalid(
                "Gaps in data detected. Data must be evenly spaced.",
                "", NoPath)>>)
       ELSE Return(data)

\* WEATHER_SCHEMA(data): vol.All runs the list schema, the length check and
\* the spacing check in turn and stops at the first that fails
WEATHER_SCHEMA(data) ==
    IF SequenceErrors(data, 1) # <<>>
    THEN MultipleInvalid(SequenceErrors(data, 1))
    ELSE IF LengthErrors(data) # <<>>
    THEN MultipleInvalid(LengthErrors(data))
    ELSE ValidateSortedAndEvenlySpaced(data)

(***************************************************************************)
(* WeatherAPI._validate on the table of a provider.  Every record of a     *)
(* table has the columns of the table, so the table is a list of records   *)
(* with the same keys; a table without rows keeps its columns.             *)
(***************************************************************************)
OutputSchema == <<"cloud_cover", "temperature", "humidity", "wind_speed">>

IsTable(data) == \A i, j \in DOMAIN data : DOMAIN data[i] = DOMAIN data[j]

Columns(data) == IF data = <<>> THEN RequiredKeys ELSE DOMAIN data[1]

\* df[key] = df[key].astype(float) for the keys of output_schema in turn:
\* the first column the table lacks is a KeyError
MissingOutputColumns(data) ==
    SelectSeq(OutputSchema, LAMBDA key : key \notin Columns(data))

\* the text of a record in an f-string: {'datetime': 10, 'temperature': 20}
RECURSIVE ItemsRepr(_, _, _)
ItemsRepr(rec, k, first) ==
    IF k > Len(FieldOrder) THEN ""
    ELSE IF FieldOrder[k] \notin DOMAIN rec
    THEN ItemsRepr(rec, k + 1, first)
    ELSE (IF first THEN "" ELSE ", ")
         \o "'" \o FieldOrder[k] \o "': " \o ToString(rec[FieldOrder[k]])
         \o ItemsRepr(rec, k + 1, FALSE)

\* the text of the list of records: [{...}, {...}]
RECURSIVE RecordsRepr(_, _)
RecordsRepr(data, k) ==
    IF k > Len(data) THEN ""
    ELSE (IF k = 1 THEN "" ELSE ", ")
         \o "{" \o ItemsRepr(data[k], 1, TRUE) \o "}"
         \o RecordsRepr(data, k + 1)

Repr(data) == "[" \o RecordsRepr(data, 1) \o "]"

\* WeatherAPI._validate(df): vol.Invalid becomes a ValueError that holds
\* the records and the message of the error; any other exception passes
ApiValidate(data) ==
    IF MissingOutputColumns(data) # <<>>
    THEN Raise("KeyError", "'" \o MissingOutputColumns(data)[1] \o "'")
    ELSE LET validated_data == WEATHER_SCHEMA(data)
         IN IF validated_data.kind = "raise"
               /\ validated_data.exc = "MultipleInvalid"
            THEN Raise("ValueError",
                       "Error validating weather data: " \o Repr(data)
                       \o " message: " \o validated_data.msg)
            ELSE validated_data

NotATable == [kind |-> "not a table"]

\* one validation of one sequence: the schema on the records, and
\* _validate on the table of these records
Validate(data) ==
    /\ val' = [data |-> data,
               schema |-> WEATHER_SCHEMA(data),
               api |-> IF IsTable(data) THEN ApiValidate(data)
                       ELSE NotATable]
    /\ UNCHANGED <<ctor, plant, results, call, ret, warned, executed, read,
                   runs, hist, conv, res, factory, sys>>

NextValidate ==
    /\ val = NoneValue
    /\ \E n \in 0..MaxRecords :
         \E deltas \in [1..(n - 1) -> Deltas], defects \in [1..n -> Defects] :
            /\ FewDefects(defects)
            /\ Validate(WeatherSequence(deltas, defects))

SpecValidate == Init /\ [][NextValidate]_vars

(***************************************************************************)
(* Vocabulary of the claims about the validator.                           *)
(***************************************************************************)
ValCalled == val # NoneValue
Accepted == ValCalled /\ val.schema.kind = "return"

\* every record has its required keys, no other key than the schema's,
\* and every value in its range
RecordsValid(data) ==
    \A k \in DOMAIN data : MappingErrors(data[k], k - 1) = <<>>

HasTimestamps(data) == \A k \in DOMAIN data : "datetime" \in DOMAIN data[k]

Steps(data) == Diff([k \in DOMAIN data |-> data[k].datetime])

UnequalDeltas(data) ==
    /\ HasTimestamps(data)
    /\ \E j, k \in DOMAIN Steps(data) : Steps(data)[j] # Steps(data)[k]

ConstantStep(data) == HasTimestamps(data) /\ ~UnequalDeltas(data)

GapsMessage == "Gaps in data detected. Data must be evenly spaced."

\* C16: a sequence of exactly one valid record is accepted by the validator
\* and returned as it is.
C16_SingleRecordAccepted ==
    (ValCalled /\ Len(val.data) = 1 /\ RecordsValid(val.data))
        => val.schema = Return(val.data)

\* C17: every sequence the validator accepts has strictly increasing
\* timestamps (no descending order, no repeated timestamp), and what is
\* returned is the input, in its order.
C17_AcceptedStrictlySorted ==
    Accepted =>
        /\ \A k \in DOMAIN Steps(val.data) : Steps(val.data)[k] > 0
        /\ val.schema.value = val.data

LacksOnly(data, i, key) ==
    /\ key \notin DOMAIN data[i]
    /\ MappingErrors(data[i], i - 1)
           = <<Invalid("required key not provided", "", Path(i - 1, key))>>
    /\ \A k \in DOMAIN data \ {i} : MappingErrors(data[k], k - 1) = <<>>

\* C19: a sequence of one record or more, every record valid and the step
\* between timestamps constant, is accepted; a sequence that lacks one
\* required key in one record is rejected with an error that cites the key.
C19_ValidAcceptedMissingFieldCited ==
    ValCalled =>
        /\ (Len(val.data) >= 1 /\ RecordsValid(val.data)
                /\ ConstantStep(val.data))
              => val.schema = Return(val.data)
        /\ \A i \in DOMAIN val.data : \A key \in RequiredKeys :
              LacksOnly(val.data, i, key) =>
                  /\ val.schema.kind = "raise"
                  /\ val.schema.msg =
                         "required key not provided @ data["
                         \o ToString(i - 1) \o "]['" \o key \o "']"

\* what is wrong with the sequence: every error of every record, the
\* length, the spacing
Violations(data) ==
    UNION {{Str(MappingErrors(data[k], k - 1)[j]) :
                j \in DOMAIN MappingErrors(data[k], k - 1)} :
           k \in DOMAIN data}
    \cup {Str(LengthErrors(data)[j]) : j \in DOMAIN LengthErrors(data)}
    \cup (IF UnequalDeltas(data) THEN {GapsMessage} ELSE {})

\* C20: the error the validator raises describes every constraint the
\* sequence violates.
C20_EveryViolationDescribed ==
    (ValCalled /\ val.schema.kind = "raise"
        /\ val.schema.exc = "MultipleInvalid") =>
        Violations(val.data)
            \subseteq {Str(val.schema.errors[j]) :
                          j \in DOMAIN val.schema.errors}

(***************************************************************************)
(* Plant resolver (config/schemas.py and model/manager.py): PLANT_SCHEMA   *)
(* over a raw plant specification, then _create_single_plant.  A raw       *)
(* specification is a record of any of the plant keys; its arrays are      *)
(* records of any of the array keys.                                       *)
(***************************************************************************)
PlantKeyOrder == <<"name", "ac_power", "inverter", "arrays">>
ArrayKeyOrder ==
    <<"name", "tilt", "azimuth", "dc_power", "ac_power",
      "modules_per_string", "nr_inverters", "strings", "module", "inverter">>

\* Required(...) keys of SYSTEM_* and of ARRAY_*, in the resolver's order
SystemRequired ==
    << {"name", "arrays"}, {"name", "ac_power", "arrays"},
       {"name", "arrays"}, {"name", "inverter", "arrays"} >>

ArrayRequired ==
    << {"name", "tilt", "azimuth", "dc_power", "ac_power"},
       {"name", "tilt", "azimuth", "dc_power"},
       {"name", "tilt", "azimuth", "modules_per_string", "nr_inverters",
        "module", "inverter"},
       {"name", "tilt", "azimuth", "modules_per_string", "strings",
        "module"} >>

\* one array of each shape, as the schemas of the plant model have them
RawArray ==
    << CHOOSE a \in ARRAY_SIMPLE_MICRO : a.name = "E",
       CHOOSE a \in ARRAY_SIMPLE_STRING : a.name = "E",
       CHOOSE a \in ARRAY_FULL_MICRO :
            a.name = "E" /\ a.nr_inverters = 1 /\ a.module = "mod_a"
                /\ a.inverter = "inv_a",
       CHOOSE a \in ARRAY_FULL_STRING : a.name = "E" /\ a.module = "mod_a" >>

\* the arrays a specification is made of: the four shapes; a shape with a
\* key of another shape; a value out of range; a required key left out
RawArrays ==
    Range(RawArray)
    \cup {With(RawArray[1], "module", "mod_a"),
          With(RawArray[3], "strings", 1),
          With(RawArray[4], "dc_power", 300),
          With(RawArray[2], "dc_power", 0),
          Without(RawArray[4], "tilt")}

\* a raw specification with the given keys
RawConfig(keys, arrays) ==
    [key \in keys |->
        CASE key = "name" -> PlantName
          [] key = "ac_power" -> 5000
          [] key = "inverter" -> "inv_a"
          [] key = "arrays" -> arrays]

\* str(exc) of one error: message, kind of value, path
Reason(msg, error_type, path) ==
    msg \o (IF error_type = "" THEN "" ELSE " for " \o error_type)
        \o " @ data" \o path

Key(key) == "['" \o key \o "']"
Index(i) == "[" \o ToString(i) \o "]"

\* STR, TILT, AZIMUTH and _positive_int on the value of a key
ValueReasons(key, v, path) ==
    IF key \in {"name", "module", "inverter"}
    THEN IF v = ""
         THEN <<Reason("cannot be empty", "dictionary value", path)>>
         ELSE <<>>
    ELSE IF key = "tilt"
    THEN IF v < 0 \/ v > 90
         THEN <<Reason("tilt must be between 0 ° and 90 ° (0 ° = horizontal)",
                       "dictionary value", path)>>
         ELSE <<>>
    ELSE IF key = "azimuth"
    THEN IF v < 0 \/ v > 360
         THEN <<Reason("azimuth must be between 0 ° and 360 ° (0 ° = North)",
                       "dictionary value", path)>>
         ELSE <<>>
    ELSE IF v < 1
    THEN <<Reason("must be a positive integer", "dictionary value", path)>>
    ELSE <<>>

\* a schema that lets every key through
ExtraAllowed(key, schema_keys) == FALSE

\* extra=False: a key the schema does not name is an error
Extra(key, schema_keys) == key \notin schema_keys

\* "required key not provided" for the keys of the schema the data lacks
MissingReasons(order, schema_keys, data, path) ==
    LET missing == SelectSeq(order, LAMBDA key :
                        key \in schema_keys /\ key \notin DOMAIN data)
    IN [j \in DOMAIN missing |->
           Reason("required key not provided", "", path \o Key(missing[j]))]

\* ARRAY_*(array): the keys of the array in turn, then the missing ones
RECURSIVE ArrayKeyReasons(_, _, _, _)
ArrayKeyReasons(k, array, path, j) ==
    IF j > Len(ArrayKeyOrder) THEN <<>>
    ELSE LET key == ArrayKeyOrder[j]
             rest == ArrayKeyReasons(k, array, path, j + 1)
         IN IF key \notin DOMAIN array THEN rest
            ELSE IF Extra(key, ArrayRequired[k])
            THEN <<Reason("extra keys not allowed", "", path \o Key(key))>>
                 \o rest
            ELSE ValueReasons(key, array[key], path \o Key(key)) \o rest

ArrayReasons(k, array, path) ==
    ArrayKeyReasons(k, array, path, 1)
    \o MissingReasons(ArrayKeyOrder, ArrayRequired[k], array, path)

\* All([ARRAY_*], Length(min=1)): the errors of the first array that has
\* any, else the length
RECURSIVE ArraysReasons(_, _, _, _)
ArraysReasons(k, arrays, path, i) ==
    IF i > Len(arrays)
    THEN IF Len(arrays) < 1
         THEN <<Reason("length of value must be at least 1",
                       "dictionary value", path)>>
         ELSE <<>>
    ELSE IF ArrayReasons(k, arrays[i], path \o Index(i - 1)) # <<>>
    THEN ArrayReasons(k, arrays[i], path \o Index(i - 1))
    ELSE ArraysReasons(k, arrays, path, i + 1)

\* SYSTEM_*(config), the k-th of the four: every error, in turn
RECURSIVE SystemKeyReasons(_, _, _)
SystemKeyReasons(k, config, j) ==
    IF j > Len(PlantKeyOrder) THEN <<>>
    ELSE LET key == PlantKeyOrder[j]
             rest == SystemKeyReasons(k, config, j + 1)
         IN IF key \notin DOMAIN config THEN rest
            ELSE IF Extra(key, SystemRequired[k])
            THEN <<Reason("extra keys not allowed", "", Key(key))>> \o rest
            ELSE IF key = "arrays"
            THEN ArraysReasons(k, config.arrays, Key(key), 1) \o rest
            ELSE ValueReasons(key, config[key], Key(key)) \o rest

SystemReasons(k, config) ==
    SystemKeyReasons(k, config, 1)
    \o MissingReasons(PlantKeyOrder, SystemRequired[k], config, "")

\* variant(data) does not raise
Validates(k, config) == SystemReasons(k, config) = <<>>

\* the orders in which the set of caught exceptions can be iterated
Orders ==
    {o \in [1..4 -> 1..4] : \A i, j \in 1..4 : o[i] = o[j] => i = j}

\* only the exception caught last is kept
AddLast(excs, exc) == <<exc>>

\* excs.add(exc)
Add(excs, exc) == Append(excs, exc)

\* '\n'.join(str(exc) for exc in excs), the exceptions taken in `order`
RECURSIVE Join(_, _, _)
Join(excs, order, j) ==
    IF j > Len(order) THEN ""
    ELSE IF order[j] > Len(excs) THEN Join(excs, order, j + 1)
    ELSE excs[order[j]]
         \o (IF \E i \in (j + 1)..Len(order) : order[i] <= Len(excs)
             THEN "\n" ELSE "")
         \o Join(excs, order, j + 1)

\* the loop of _dispatch(data) from variant k on: the first variant that
\* validates returns the data; else the exceptions caught are left, each
\* with the text str(exc) gives, the first reason of its variant
RECURSIVE DispatchLoop(_, _, _)
DispatchLoop(data, k, excs) ==
    IF k > Len(SystemRequired) THEN [kind |-> "excs", excs |-> excs]
    ELSE IF Validates(k, data) THEN Return(data)
    ELSE DispatchLoop(data, k + 1, Add(excs, SystemReasons(k, data)[1]))

\* PLANT_SCHEMA(raw_config), `tried` being what the loop of _dispatch ends
\* with: its return value, or Invalid(msg) as Schema raises it
PLANT_SCHEMA(tried, order) ==
    IF tried.kind = "return" THEN tried
    ELSE Raise("MultipleInvalid",
               "config contains potential errors: \n"
               \o Join(tried.excs, order, 1))

\* every option builds a micro-inverter plant
PlantClassMicro(option) == "MicroPlant"

\* the plant class of an option of the resolver
PlantClass(option) == option.plant_class

\* SystemManager._create_single_plant(config) from option k on
RECURSIVE CreateSinglePlant(_, _)
CreateSinglePlant(config, k) ==
    IF k > Len(plant_options)
    THEN [raised |-> Raise("ValueError",
                           "Unable to determine plant type for config"),
          plant |-> NoPlant]
    ELSE IF Validates(k, config)
    THEN NewPlant(PlantClass(plant_options[k]), config,
                  plant_options[k].is_simple)
    ELSE CreateSinglePlant(config, k + 1)

\* one turn of the loop of SystemManager._create_plants: the plant is
\* built from what PLANT_SCHEMA returns, and nothing is built when it raises
CreatePlant(validated_config) ==
    IF validated_config.kind = "raise"
    THEN [raised |-> validated_config, plant |-> NoPlant]
    ELSE CreateSinglePlant(validated_config.value, 1)

\* the set of exceptions is iterated only when no variant validated
OrdersOf(tried) ==
    IF tried.kind = "return" THEN {[i \in 1..4 |-> i]} ELSE Orders

\* raw_config through _create_plants; the loop of _dispatch runs once and
\* the order of its set of exceptions is any
Resolve(raw_config) ==
    /\ res = NoneValue
    /\ \E tried \in {DispatchLoop(raw_config, 1, <<>>)} :
         \E order \in OrdersOf(tried) :
            \E validated_config \in {PLANT_SCHEMA(tried, order)} :
                res' = [config |-> raw_config,
                        validated |-> validated_config,
                        created |-> CreatePlant(validated_config)]
    /\ UNCHANGED <<ctor, plant, results, call, ret, warned, executed, read,
                   runs, hist, conv, val, factory, sys>>

NextResolve ==
    /\ res = NoneValue
    /\ \E keys \in SUBSET Range(PlantKeyOrder), n \in 0..MaxArrays :
         \E arrays \in [1..n -> RawArrays] :
            Resolve(RawConfig(keys, arrays))

SpecResolve == Init /\ [][NextResolve]_vars

ResCalled == res # NoneValue
ResBuilt == ResCalled /\ res.created.plant # NoPlant
ResValid == {k \in 1..4 : Validates(k, res.config)}

\* C21: the plant built is that of the first schema, in the order simple
\* micro, simple string, full micro, full string, that the specification
\* validates against: MicroPlant simple, StringPlant simple, MicroPlant
\* full, StringPlant full; a specification of the full string shape alone
\* gives a StringPlant in full mode.
C21_FirstValidSchemaDecides ==
    (ResCalled /\ ResValid # {}) =>
        LET k == CHOOSE i \in ResValid : \A j \in ResValid : i <= j
        IN /\ res.created.raised = NoneValue
           /\ res.created.plant.kind =
                  <<"MicroPlant", "StringPlant", "MicroPlant",
                    "StringPlant">>[k]
           /\ res.created.plant.simple = <<TRUE, TRUE, FALSE, FALSE>>[k]
           /\ res.created.plant.config = res.config
           /\ ResValid = {4} =>
                 /\ res.created.plant.kind = "StringPlant"
                 /\ ~res.created.plant.simple

\* a specification of the full string shape, two arrays, resolved
C21_Witness ==
    /\ ResBuilt
    /\ ResValid = {4}
    /\ Len(res.config.arrays) = 2
    /\ res.created.plant.kind = "StringPlant"
    /\ ~res.created.plant.simple

\* the option the resolver would take with its options tried in `order`
FirstIn(order) ==
    LET j == CHOOSE i \in 1..4 :
                /\ order[i] \in ResValid
                /\ \A h \in 1..(i - 1) : order[h] \notin ResValid
    IN order[j]

\* C22: no plant specification validates against more than one of the four
\* schemas, so whatever the order in which they are tried, the same option
\* is taken.
C22_SchemasMutuallyExclusive ==
    ResCalled =>
        /\ Cardinality(ResValid) <= 1
        /\ ResValid # {} =>
              \A order \in Orders :
                  /\ plant_options[FirstIn(order)].plant_class
                         = res.created.plant.kind
                  /\ plant_options[FirstIn(order)].is_simple
                         = res.created.plant.simple

\* a specification of the simple micro shape, the one whose plant keys are
\* also those of the full micro shape, resolved
C22_Witness ==
    /\ ResBuilt
    /\ ResValid = {1}
    /\ DOMAIN res.config = SystemRequired[3]
    /\ res.created.plant.kind = "MicroPlant"
    /\ res.created.plant.simple

\* the text _dispatch raises with for four reasons taken in `order`
CombinedText(reasons, order) ==
    "config contains potential errors: \n"
    \o reasons[order[1]] \o "\n" \o reasons[order[2]] \o "\n"
    \o reasons[order[3]] \o "\n" \o reasons[order[4]]

\* C23: a specification that validates against none of the four schemas
\* makes PLANT_SCHEMA raise an error whose text holds a reason of each of
\* the four schemas, and no plant is built for it.
C23_AggregateErrorOfAllFour ==
    (ResCalled /\ ResValid = {}) =>
        /\ res.validated.kind = "raise"
        /\ \A k \in 1..4 : SystemReasons(k, res.config)[1] # ""
        /\ \E order \in Orders :
              res.validated.msg =
                  CombinedText([k \in 1..4 |->
                                   SystemReasons(k, res.config)[1]], order)
        /\ res.created.plant = NoPlant
        /\ res.created.raised = res.validated

\* a specification with full string arrays and no inverter: four different
\* reasons, none of them a plant
C23_Witness ==
    /\ ResCalled
    /\ ResValid = {}
    /\ DOMAIN res.config = {"name", "arrays"}
    /\ Len(res.config.arrays) = 1
    /\ res.config.arrays[1] = RawArray[4]
    /\ res.validated.kind = "raise"
    /\ res.created.plant = NoPlant

PowerKeys == {"ac_power", "dc_power"}
ComponentKeys == {"inverter", "module"}

\* the keys of the specification and of its arrays
KeysOf(config) ==
    DOMAIN config
    \cup (IF "arrays" \in DOMAIN config
          THEN UNION {DOMAIN config.arrays[i] : i \in DOMAIN config.arrays}
          ELSE {})

\* C24: a specification that carries a flat power rating (ac_power,
\* dc_power) and a component identifier (inverter, module), on the plant or
\* on an array, is rejected by PLANT_SCHEMA and no plant is built from it.
C24_SimpleFullMixRejected ==
    (ResCalled /\ KeysOf(res.config) \cap PowerKeys # {}
        /\ KeysOf(res.config) \cap ComponentKeys # {}) =>
        /\ res.validated.kind = "raise"
        /\ res.validated.exc = "MultipleInvalid"
        /\ res.created.plant = NoPlant

\* a full string specification with ac_power next to its inverter
C24_Witness ==
    /\ ResCalled
    /\ DOMAIN res.config = {"name", "ac_power", "inverter", "arrays"}
    /\ Len(res.config.arrays) = 1
    /\ res.config.arrays[1] = RawArray[4]
    /\ res.validated.kind = "raise"
    /\ res.created.plant = NoPlant

(***************************************************************************)
(* Further properties of the plant aggregator                              *)
(***************************************************************************)
\* the permutations of 1..n
Perms(n) == {p \in [1..n -> 1..n] : \A i, j \in 1..n : p[i] = p[j] => i = j}

\* run() of the last call on the plant with its units taken in order p,
\* each unit doing what it did
RunPermuted(p) ==
    PlantRun([plant EXCEPT !.plants = [k \in DOMAIN p |-> plant.plants[p[k]]]],
             NoneValue, call.weather_df, call.add_individual,
             [k \in DOMAIN p |-> call.responses[p[k]]])

\* C25 as claimed: the `ac` total run() stores is the same for every order
\* of the plant's units, and so is the rest of the stored table: the same
\* columns with the same values, only the per-unit columns in another order.
C25_TotalIndependentOfUnitOrder ==
    RunReturned =>
        \A p \in Perms(UnitCount) :
            /\ RunPermuted(p).ret = Return(NoneValue)
            /\ ColumnValues(RunPermuted(p).results, "ac") = StoredAc
            /\ ColumnNames(RunPermuted(p).results) = ColumnNames(results)
            /\ \A c \in ColumnNames(results) :
                  ColumnValues(RunPermuted(p).results, c)
                      = ColumnValues(results, c)

NotAvailable ==
    Raise("ValueError",
          "Plant results are not available. Run the model first.")

\* C28: a run() that raises leaves the stored results as they were: a read
\* of `results` gives the same table as before it, or still raises
\* ValueError when there was none; a plant that has results never goes
\* back to having none.
C28_RaisingRunKeepsResults ==
    [][ /\ (runs' = runs + 1 /\ ret'.kind = "raise")
            => /\ results' = results
               /\ ResultsGet(results') = ResultsGet(results)
               /\ results = NoneValue => ResultsGet(results') = NotAvailable
        /\ results # NoneValue => results' # NoneValue
        /\ (read' # NoneValue /\ runs > 0 /\ ret.kind = "raise"
                /\ results = NoneValue)
            => read' = NotAvailable
      ]_vars

\* a second run that raised out of a unit, on a plant whose first run
\* returned, and the table of the first run read after it
C28_Witness ==
    /\ runs = 2
    /\ RunRaised
    /\ executed # <<>>
    /\ results # NoneValue
    /\ read = Return(results)

\* C29: run() leaves the list of units as construction made it, whether it
\* returns or raises, and executes the units in the order of that list:
\* all of them when it returns, the first ones when it raises.
C29_UnitsFixedAtConstruction ==
    [][ plant # NoPlant =>
          /\ plant'.plants = plant.plants
          /\ plant'.plants
                 = ConstructUnits(ctor.plant_class, ctor.config, ctor.simple)
          /\ runs' = runs + 1 =>
                /\ executed' = [k \in 1..Len(executed') |-> k]
                /\ Len(executed') <= Len(plant.plants)
                /\ ret'.kind = "return"
                       => Len(executed') = Len(plant.plants)
      ]_vars

\* a plant of two units whose first run returned and whose second run
\* raised out of its first unit: the two units are still there
C29_Witness ==
    /\ runs = 2
    /\ RunRaised
    /\ results # NoneValue
    /\ executed = <<1>>
    /\ UnitCount = 2
    /\ plant.plants
           = ConstructUnits(ctor.plant_class, ctor.config, ctor.simple)

(***************************************************************************)
(* The weather API factory.  A dict is the sequence of its items in        *)
(* insertion order; factory.log is the sequence of register calls made so  *)
(* far and factory.last the last lookup with its outcome.                  *)
(***************************************************************************)
MaxRegs == 3

ApiIds == {"clearoutside", "mockweatherapi"}
LookupIds == ApiIds \cup {"wrong_api"}
ApiClasses == {"ClearOutside", "MockWeatherAPI"}
ApiSchemas == {"SCHEMA", "MOCK_SCHEMA"}
Kwargs == {[location |-> "Location(0, 0, 'UTC', 0)"]}

DictKeys(d) == [k \in DOMAIN d |-> d[k].key]

DictHas(d, key) == \E k \in DOMAIN d : d[k].key = key

\* d[key]
DictGet(d, key) == d[CHOOSE k \in DOMAIN d : d[k].key = key].value

\* d.setdefault(key, value)
DictSetDefault(d, key, value) ==
    IF DictHas(d, key) THEN d
    ELSE Append(d, [key |-> key, value |-> value])

\* d[key] = value: an existing key keeps its place and takes the new value
DictSet(d, key, value) ==
    IF DictHas(d, key)
    THEN [k \in DOMAIN d |-> IF d[k].key = key
                             THEN [key |-> key, value |-> value]
                             ELSE d[k]]
    ELSE Append(d, [key |-> key, value |-> value])

\* WeatherAPIFactory.register
Register(api_id, weather_api_class, schema) ==
    /\ Len(factory.log) < MaxRegs
    /\ factory' = [factory EXCEPT
            !.apis = DictSet(@, api_id, weather_api_class),
            !.schemas = DictSet(@, api_id, schema),
            !.log = Append(@, [api_id |-> api_id,
                               weather_api_class |-> weather_api_class,
                               schema |-> schema]),
            !.last = NoneValue]
    /\ UNCHANGED <<ctor, plant, results, call, ret, warned, executed, read,
                   runs, hist, conv, val, res, sys>>

\* weather_api_class(**kwargs)
Instance(weather_api_class, kwargs) ==
    [class |-> weather_api_class, kwargs |-> kwargs]

\* WeatherAPIFactory.get_weather_api
GetWeatherApi(api_id, kwargs) ==
    /\ factory' = [factory EXCEPT !.last =
            [op |-> "get_weather_api", api_id |-> api_id,
             outcome |->
                IF DictHas(factory.apis, api_id)
                THEN Return(Instance(DictGet(factory.apis, api_id), kwargs))
                ELSE Raise("ValueError",
                           "Unknown weather API: " \o api_id)]]
    /\ UNCHANGED <<ctor, plant, results, call, ret, warned, executed, read,
                   runs, hist, conv, val, res, sys>>

\* WeatherAPIFactory.get_weather_api_schema
GetWeatherApiSchema(api_id) ==
    /\ factory' = [factory EXCEPT !.last =
            [op |-> "get_weather_api_schema", api_id |-> api_id,
             outcome |->
                IF DictHas(factory.schemas, api_id)
                THEN Return(DictGet(factory.schemas, api_id))
                ELSE Raise("ValueError",
                           "Unknown weather API schema: " \o api_id)]]
    /\ UNCHANGED <<ctor, plant, results, call, ret, warned, executed, read,
                   runs, hist, conv, val, res, sys>>

\* WeatherAPIFactory.get_weather_api_list_str
GetWeatherApiListStr(self) == DictKeys(self.apis)

NextFactory ==
    \/ \E api_id \in ApiIds, weather_api_class \in ApiClasses,
          schema \in ApiSchemas :
            Register(api_id, weather_api_class, schema)
    \/ \E api_id \in LookupIds, kwargs \in Kwargs :
            GetWeatherApi(api_id, kwargs)
    \/ \E api_id \in LookupIds : GetWeatherApiSchema(api_id)

SpecFactory == Init /\ [][NextFactory]_vars

\* the register calls made for an id, in the order they were made
RegisteredUnder(api_id) ==
    SelectSeq(factory.log, LAMBDA reg : reg.api_id = api_id)

IsRegistered(api_id) == RegisteredUnder(api_id) # <<>>

MostRecent(api_id) ==
    RegisteredUnder(api_id)[Len(RegisteredUnder(api_id))]

\* what a lookup is to answer after the register calls made so far
Expected(op, api_id, kwargs) ==
    IF op = "get_weather_api"
    THEN IF IsRegistered(api_id)
         THEN Return(Instance(MostRecent(api_id).weather_api_class, kwargs))
         ELSE Raise("ValueError", "Unknown weather API: " \o api_id)
    ELSE IF IsRegistered(api_id)
         THEN Return(MostRecent(api_id).schema)
         ELSE Raise("ValueError", "Unknown weather API schema: " \o api_id)

\* C27: after any sequence of register calls a lookup of an id answers with
\* an instance of the class, or with the schema, most recently registered
\* under the id, and raises ValueError naming the id when there is none;
\* the ids with a class are the ids with a schema; a lookup, failed or not,
\* leaves the registry as it was.
C27_FactoryLookups ==
    [][ /\ factory'.last # NoneValue
            => /\ \E kwargs \in Kwargs :
                    factory'.last.outcome
                        = Expected(factory'.last.op, factory'.last.api_id,
                                   kwargs)
               /\ factory'.apis = factory.apis
               /\ factory'.schemas = factory.schemas
        /\ DictKeys(factory'.apis) = DictKeys(factory'.schemas)
        /\ Range(GetWeatherApiListStr(factory'))
               = {api_id \in LookupIds : IsRegistered(api_id)'}
      ]_vars

\* an id registered twice, with different classes and schemas, while the
\* other id was never registered, and its schema looked up after that
C27_Witness ==
    /\ Len(RegisteredUnder("clearoutside")) = 2
    /\ RegisteredUnder("clearoutside")[1].weather_api_class = "ClearOutside"
    /\ RegisteredUnder("clearoutside")[2].weather_api_class = "MockWeatherAPI"
    /\ RegisteredUnder("clearoutside")[1].schema = "SCHEMA"
    /\ RegisteredUnder("clearoutside")[2].schema = "MOCK_SCHEMA"
    /\ ~IsRegistered("mockweatherapi")
    /\ factory.last # NoneValue
    /\ factory.last.op = "get_weather_api_schema"
    /\ factory.last.api_id = "clearoutside"
    /\ factory.last.outcome = Return("MOCK_SCHEMA")

(***************************************************************************)
(* Two plants and the tables of their caller.  Tables and units are        *)
(* objects: sys.heap and sys.units hold them and an object is known by its *)
(* place there, so that two references to one object differ from two equal *)
(* objects.  The caller holds its weather table and every table it got     *)
(* from `results`, and may write to any of them between the calls.         *)
(***************************************************************************)
MaxOps == 3

SysOptions == {1, 2}

SysConfig(k) == CHOOSE c \in plant_options[k].schema : Len(c.arrays) = 2

SysWeather ==
    {PipelineWeather, WeatherTable("Index", MaxRows, PipelineColumns)}

SysResponses(N, weather_df) ==
    IF ~Reaches(weather_df) THEN {<<>>}
    ELSE PlainResponses(N, RowCount(weather_df))
         \cup {[k \in 1..N |-> IF k = 1 THEN Raises("RuntimeError")
                               ELSE Ok(UnitSeries(k, RowCount(weather_df)))]}

\* ModelChain(system, self._location, ...): one new object per unit
NewUnits(units) == [k \in DOMAIN units |-> [name |-> units[k].name,
                                            last |-> NoAc]]

\* one list on the class, which every instance appends to
PlantListShared(prior, own) == prior \o own

\* self._plants = [] in __init__: a list of the instance, holding the units
\* its own _construct built
PlantList(prior, own) == own

\* plant_class(config, location, simple=is_simple) when the unit objects
\* objs exist and the plant built before holds the units prior
BuildPlant(objs, prior, k) ==
    LET new == NewPlant(plant_options[k].plant_class, SysConfig(k),
                        plant_options[k].is_simple).plant
        own == [j \in DOMAIN new.plants |-> Len(objs) + j]
    IN [units |-> objs \o NewUnits(new.plants),
        plant |-> [self |-> new,
                   units |-> PlantList(prior, own),
                   results |-> 0]]

Build(k1, k2, weather_df) ==
    /\ sys = NoneValue
    /\ LET first == BuildPlant(<<>>, <<>>, k1)
           second == BuildPlant(first.units, first.plant.units, k2)
       IN sys' = [heap |-> <<weather_df>>,
                  weather |-> 1,
                  held |-> <<>>,
                  units |-> second.units,
                  plants |-> <<first.plant, second.plant>>,
                  alone |-> <<NoneValue, NoneValue>>,
                  op |-> [kind |-> "build", plant |-> 0, ref |-> 0],
                  ops |-> 0]
    /\ UNCHANGED <<ctor, plant, results, call, ret, warned, executed, read,
                   runs, hist, conv, val, res, factory>>

\* the plant object as run() sees it: self._plants are its unit objects
SelfOf(s, i) ==
    [s.plants[i].self EXCEPT !.plants =
        [k \in DOMAIN s.plants[i].units |->
            [name |-> s.units[s.plants[i].units[k]].name]]]

\* self._results of plant i
StoredOf(s, i) ==
    IF s.plants[i].results = 0 THEN NoneValue
    ELSE s.heap[s.plants[i].results]

\* the table itself handed on
DataFrameAlias(heap, ref) == [heap |-> heap, ref |-> ref]

\* DataFrame.copy(): a new table with the same content
DataFrameCopy(heap, ref) ==
    [heap |-> Append(heap, heap[ref]), ref |-> Len(heap) + 1]

\* plant.run(weather_df, add_individual=...) on plant i with the caller's
\* weather table: result_df is a copy of it, the columns are written to
\* result_df and self._results is set to it when nothing was raised; every
\* unit invoked keeps what its run_model made of the call
SysRun(i, add_individual, responses) ==
    /\ sys # NoneValue
    /\ sys.ops < MaxOps
    /\ LET p == sys.plants[i]
           weather_df == sys.heap[sys.weather]
           result_df == DataFrameCopy(sys.heap, sys.weather)
           out == PlantRun(SelfOf(sys, i), StoredOf(sys, i), weather_df,
                           add_individual, responses)
           returned == out.ret = Return(NoneValue)
           invoked == {p.units[k] : k \in Range(out.executed)}
           asked(u) == CHOOSE k \in Range(out.executed) : p.units[k] = u
       IN sys' = [sys EXCEPT
            !.heap = IF returned
                     THEN [result_df.heap EXCEPT
                              ![result_df.ref] = out.results]
                     ELSE sys.heap,
            !.plants[i].results = IF returned THEN result_df.ref
                                  ELSE p.results,
            !.units = [u \in DOMAIN sys.units |->
                          IF u \in invoked
                          THEN [name |-> sys.units[u].name,
                                last |-> responses[asked(u)]]
                          ELSE sys.units[u]],
            !.alone[i] = IF returned
                         THEN [weather_df |-> weather_df,
                               add_individual |-> add_individual,
                               responses |-> responses]
                         ELSE sys.alone[i],
            !.op = [kind |-> "run", plant |-> i, ref |-> 0],
            !.ops = sys.ops + 1]
    /\ UNCHANGED <<ctor, plant, results, call, ret, warned, executed, read,
                   runs, hist, conv, val, res, factory>>

\* plant.results on plant i: self._results.copy(), which the caller keeps
SysRead(i) ==
    /\ sys # NoneValue
    /\ sys.ops < MaxOps
    /\ LET p == sys.plants[i]
           got == DataFrameCopy(sys.heap, p.results)
       IN IF ResultsGet(StoredOf(sys, i)).kind = "raise"
          THEN sys' = [sys EXCEPT
                  !.op = [kind |-> "read", plant |-> i, ref |-> 0],
                  !.ops = sys.ops + 1]
          ELSE sys' = [sys EXCEPT
                  !.heap = got.heap,
                  !.held = Append(sys.held, got.ref),
                  !.op = [kind |-> "read", plant |-> i, ref |-> got.ref],
                  !.ops = sys.ops + 1]
    /\ UNCHANGED <<ctor, plant, results, call, ret, warned, executed, read,
                   runs, hist, conv, val, res, factory>>

\* df["ac"] = 0 by the caller, on a table it holds
Modify(df) == SetColumn(df, "ac", Zeros(RowCount(df)))

SysModify(ref) ==
    /\ sys # NoneValue
    /\ sys.ops < MaxOps
    /\ ref \in Range(sys.held) \cup {sys.weather}
    /\ Modify(sys.heap[ref]) # sys.heap[ref]
    /\ sys' = [sys EXCEPT
            !.heap[ref] = Modify(sys.heap[ref]),
            !.op = [kind |-> "modify", plant |-> 0, ref |-> ref],
            !.ops = sys.ops + 1]
    /\ UNCHANGED <<ctor, plant, results, call, ret, warned, executed, read,
                   runs, hist, conv, val, res, factory>>

NextSystem ==
    \/ \E k1 \in SysOptions, k2 \in SysOptions, weather_df \in SysWeather :
            Build(k1, k2, weather_df)
    \/ /\ sys # NoneValue
       /\ \E i \in DOMAIN sys.plants, add_individual \in BOOLEAN :
            \E responses \in SysResponses(Len(sys.plants[i].units),
                                          sys.heap[sys.weather]) :
                SysRun(i, add_individual, responses)
    \/ /\ sys # NoneValue
       /\ \E i \in DOMAIN sys.plants : SysRead(i)
    \/ /\ sys # NoneValue
       /\ \E ref \in DOMAIN sys.heap : SysModify(ref)

SpecSystem == Init /\ [][NextSystem]_vars

SysUnitsOf(s, i) == Range(s.plants[i].units)

\* the table plant i stores when the call of its last returned run is made
\* on it with no results stored and no other plant around
RunAlone(s, i) ==
    PlantRun(SelfOf(s, i), NoneValue, s.alone[i].weather_df,
             s.alone[i].add_individual, s.alone[i].responses).results

\* C26: no unit object is in the lists of two plants; a run() on one plant
\* leaves the unit list, the units and the stored results of the other as
\* they were; and whatever was run, read or written in between, each plant
\* stores what its last returned run gives when made on that plant alone.
C26_PlantsShareNoState ==
    [][ sys' # NoneValue =>
          /\ \A i, j \in DOMAIN sys'.plants :
                i # j => SysUnitsOf(sys', i) \cap SysUnitsOf(sys', j) = {}
          /\ (sys # NoneValue /\ sys'.op.kind = "run") =>
                \A j \in DOMAIN sys.plants \ {sys'.op.plant} :
                    /\ sys'.plants[j] = sys.plants[j]
                    /\ StoredOf(sys', j) = StoredOf(sys, j)
                    /\ \A u \in SysUnitsOf(sys, j) :
                          sys'.units[u] = sys.units[u]
          /\ \A i \in DOMAIN sys'.plants :
                IF sys'.alone[i] = NoneValue
                THEN StoredOf(sys', i) = NoneValue
                ELSE StoredOf(sys', i) = RunAlone(sys', i)
      ]_vars

\* both plants hold results of their own, the first a plant of two units,
\* and the last step was a run of one of them
C26_Witness ==
    /\ sys # NoneValue
    /\ sys.op.kind = "run"
    /\ Len(sys.plants[1].units) = 2
    /\ sys.plants[1].results # 0
    /\ sys.plants[2].results # 0
    /\ StoredOf(sys, 1) # StoredOf(sys, 2)
    /\ \E u \in SysUnitsOf(sys, 1) : sys.units[u].last.kind = "raise"
    /\ \A u \in SysUnitsOf(sys, 2) : sys.units[u].last.kind = "ok"

\* C30: a table got from `results` is a new object equal to the stored one;
\* a write to a table the caller holds, one got from `results` or its
\* weather table, changes neither the stored results of a plant nor what a
\* read of `results` gives; run() leaves the caller's weather table as it
\* was.
C30_CopiesInAndOut ==
    [][ (sys # NoneValue /\ sys' # NoneValue) =>
          /\ sys'.op.kind = "modify" =>
                \A i \in DOMAIN sys.plants :
                    /\ StoredOf(sys', i) = StoredOf(sys, i)
                    /\ ResultsGet(StoredOf(sys', i))
                           = ResultsGet(StoredOf(sys, i))
          /\ sys'.op.kind = "run" =>
                /\ sys'.weather = sys.weather
                /\ sys'.heap[sys.weather] = sys.heap[sys.weather]
          /\ (sys'.op.kind = "read" /\ sys'.op.ref # 0) =>
                /\ sys'.heap[sys'.op.ref] = StoredOf(sys, sys'.op.plant)
                /\ sys'.op.ref \notin DOMAIN sys.heap
                /\ \A ref \in DOMAIN sys.heap :
                      sys'.heap[ref] = sys.heap[ref]
      ]_vars

\* the caller has written to a table it got from the first plant's
\* `results`: the table differs from the stored one, and the weather table
\* is the one the system was built with
C30_Witness ==
    /\ sys # NoneValue
    /\ sys.op.kind = "modify"
    /\ sys.op.ref \in Range(sys.held)
    /\ sys.plants[1].results # 0
    /\ sys.heap[sys.op.ref] = Modify(StoredOf(sys, 1))
    /\ sys.heap[sys.op.ref] # StoredOf(sys, 1)
    /\ sys.heap[sys.weather] = PipelineWeather
====
